---- MODULE Spec2Model ----
(***************************************************************************)
(* UltraLights / UltraNodeV5 firmware: the Wi-Fi connectivity supervisor   *)
(* (ul_core), the health monitor (ul_health) and the ws / rgb / white      *)
(* effect engines, modelled as state machines from the C sources.          *)
(*                                                                         *)
(* Each subsystem has its own specification over its own variables; the    *)
(* variables of the other subsystems stay unchanged under it.              *)
(*   SpecWifi     reconnect timer and Wi-Fi event handler (ul_core.c)      *)
(*   SpecHealth   health monitor task and its notifications (ul_health.c)   *)
(*   SpecRestart  ul_core_wifi_restart called by several tasks (ul_core.c)  *)
(*   SpecGroup    ul_core.c entered with and without the Wi-Fi event group  *)
(*   SpecMqtt     health monitor with MQTT client notifications             *)
(*   SpecHeap     health monitor with any heap readings                     *)
(*   SpecSync     health monitor over eight days, with or without time sync *)
(*   SpecEngines  start, stop, set_effect and the tasks of the ws, rgb and  *)
(*                white engines                                             *)
(*   SpecApi      the engines' set_effect and get_status calls observed by  *)
(*                a caller                                                  *)
(*   SpecCalls    the engines' start and stop called in any order           *)
(***************************************************************************)
EXTENDS Integers, Sequences, FiniteSets, TLC

VARIABLES
    \* ---- ul_core.c: Wi-Fi station supervisor ----
    s_backoff_ms,        \* static int s_backoff_ms
    s_wifi_event_group,  \* TRUE when the event group handle is non-NULL
    event_bits,          \* bits set in the event group: subset of {"CONNECTED", "FAIL"}
    s_reconnect_timer,   \* "null" | "idle" | "armed"
    timer_delay_ms,      \* delay the one-shot timer was last armed with
    sta,                 \* the Wi-Fi driver's station: "starting" | "idle" | "connecting" | "connected"
    arm_log,             \* history: <<delay, callbacks so far>> of every disconnect since the last STA_START / GOT_IP
    cb_count,            \* history: reconnect-timer callbacks run since the last STA_START / GOT_IP
    sync_fail,           \* history: some callback's esp_wifi_connect() failed synchronously since then
    conn_cb,             \* history: the last value passed to s_conn_cb: "none" | "up" | "down"
    \* ---- ul_health.c: health monitor ----
    clock,               \* esp_timer_get_time(), in units of 5 minutes
    s_state,             \* static ul_health_state_t s_state (under s_lock)
    hpc,                 \* position of health_task: "sleep" | "wifi" | "mqtt" | "sync" | "halted"
    snapshot,            \* health_task's local copy of s_state
    now_us,              \* health_task's local now_us
    ticked,              \* health_task has run in the current time unit (its period is 60 s)
    rebooted,            \* "no", or the policy that called esp_restart()
    wifi_req,            \* the step just taken called cfg.request_wifi_recovery
    mqtt_req,            \* the step just taken called cfg.request_mqtt_recovery
    req_since_reset,     \* history: Wi-Fi recovery requests since the attempt counter was last reset
    last_req,            \* history: now_us of the last two evaluations allowed to request Wi-Fi recovery
    down_since,          \* history: time of the first disconnect notification since the last got-IP
    elig_log,            \* history: the first eligible Wi-Fi policy evaluations of the current outage
    heap_hist,           \* history: the last heap checks, TRUE for a reading below the threshold
    \* ---- ul_core.c: ul_core_wifi_restart ----
    s_wifi_restart_mutex, \* handle held by the global: 0 (NULL) or a mutex id
    mutex_alloc,         \* per mutex id: "unallocated" | "live" | "deleted"
    mutex_holder,        \* per mutex id: the task holding it, 0 when free
    rpc,                 \* per calling task: its position in ul_core_wifi_restart
    rlocal,              \* per calling task: the handle it is blocked on in xSemaphoreTake
    panicked,            \* the firmware has aborted
    ub,                  \* history: an undefined FreeRTOS call has been made
    \* ---- ul_ws_engine.c, ul_rgb_engine.c, ul_white_engine.c ----
    family,              \* the engine the behaviour exercises: "ws" | "rgb" | "white"
    cfg,                 \* indices of the channels enabled at compile time
    phase,               \* the caller's view: "stopped" | "started"
    starts,              \* history: number of start calls made
    ws_strips,           \* ul_ws_engine.c: static ws_strip_t s_strips[2]
    s_refresh_sem,       \* TRUE when the semaphore handle is non-NULL
    sem_count,           \* count of the refresh semaphore
    s_refresh_task,      \* TRUE when the task handle is non-NULL
    s_ws_task,           \* TRUE when the task handle is non-NULL
    refresh_pc,          \* led_refresh_task: "idle" (in xSemaphoreTake) | "busy" (refreshing)
    rgb_strips,          \* ul_rgb_engine.c: static rgb_strip_t s_strips[4]
    s_strip_count,       \* ul_rgb_engine.c: static int s_strip_count
    s_rgb_task,          \* TRUE when the task handle is non-NULL
    s_ch,                \* ul_white_engine.c: static white_ch_t s_ch[4]
    s_count,             \* ul_white_engine.c: static int s_count
    s_white_task,        \* TRUE when the task handle is non-NULL
    live,                \* history: driver handles, frame buffers, tasks and semaphores
                         \* created and not yet released
    init_result,         \* history: outcome of init_strip per strip in the last start
    fail_dels,           \* history: led_strip_del calls init_strip made on the handle it created
    first_frame,         \* history: per channel, the frame index of the first render after
                         \* set_effect; -1 before that render, -2 without set_effect
    busy_gives,          \* history: refresh signals given during the current refresh pass
    passes_since_give,   \* history: refresh passes begun since the last signal
    last_call,           \* the last set_effect / get_status call observed: its arguments and results
    engine_obs,          \* history: what the last start / stop call did (task creation,
                         \* return value, reports to the health monitor) and the level of
                         \* each white output
    \* ---- ul_core.c: calls made while the event group may be missing ----
    core_obs,            \* the last ul_core_wait_for_ip / ul_core_is_connected call, or handler
                         \* or timer callback entered without an event group: its result and
                         \* the number of xEventGroupWaitBits calls it made
    \* ---- ul_state.c ----
    s_ready,             \* static bool s_ready
    s_entry_count,       \* static size_t s_entry_count
    s_entries,           \* static ul_state_entry_t s_entries[]: timer, payload, dirty
    s_queue,             \* the persistence queue: NoQueue or the messages queued
    s_nvs,               \* TRUE when the storage handle is open
    s_task,              \* TRUE when the flush task exists
    nvs_blob,            \* the blob stored under each entry's key
    state_live,          \* history: timers, queues, storage handles and tasks created and
                         \* not yet released
    state_age,           \* history of entry 0: the seconds since the last record call and
                         \* since the last one that changed the payload (both stop counting
                         \* at the flush delay), the changes that followed one another by
                         \* less than the flush delay, and the writes since the last change
    state_rec,           \* history: per entry, the last payload a record call had accepted
    state_obs,           \* the last ul_state call or callback with a result: its
                         \* arguments and the result
    \* ---- ul_mqtt.c ----
    s_client,            \* TRUE when the client handle is non-NULL
    s_retry_timer,       \* the retry timer: "none" | "idle" | "armed"
    s_retry_pending,     \* static bool s_retry_pending
    mqtt_ready,          \* ul_mqtt.c: static bool s_ready
    mqtt_live,           \* history: clients created and clients destroyed
    start_failures,      \* history: failed starts since the last start that succeeded
    mqtt_obs,            \* the last ul_mqtt_start / retry callback / ul_mqtt_stop call: its
                         \* outcome and the states it reported to the health monitor
    cmd_obs,             \* the last set command handled by on_message: its fields, the
                         \* acknowledgment published and whether its payload was recorded
    \* ---- rendering and effect parameters ----
    fx_in,               \* the arguments of the function under study
    fx_out,              \* the function applied to them last, and what it produced
    \* ---- ul_core.c: a task in ul_core_wait_for_ip ----
    tick_count,          \* xTaskGetTickCount()
    wait_pc,             \* "idle" | "blocked" (in xEventGroupWaitBits) | "woken" (it has
                         \* returned) | "done" (ul_core_wait_for_ip has returned)
    wait_start,          \* TickType_t start
    wait_remaining,      \* TickType_t remaining
    wait_until,          \* the tick at which the running xEventGroupWaitBits times out
    wait_bits,           \* EventBits_t bits, as returned by xEventGroupWaitBits
    wait_ret,            \* the value ul_core_wait_for_ip returned
    wait_wakes,          \* history: returns of xEventGroupWaitBits with only the fail bit
    \* ---- ul_core.c: the SNTP resync task and the retry of its creation ----
    sntp_pc,                  \* "boot" before ul_core_sntp_start, "started" after it
    s_sntp_task,              \* TRUE iff the handle is not NULL
    s_sntp_retry_timer,       \* "none" (NULL) | "idle" | "armed"
    sntp_timer_delay_ms,      \* the delay the retry timer was last started with
    s_sntp_retry_delay_ms,
    s_sntp_retry_attempts,
    s_sntp_first_failure_us,
    s_sntp_last_failure_us,
    sntp_now_us,              \* esp_timer_get_time()
    sntp_obs,                 \* history: the last call of ul_core_start_sntp_task
    \* ---- ul_ws_engine.c: ws_task and led_refresh_task statement by statement ----
    ws_pc,               \* ws_task is about to: "render0" | "render1" | "give" | "delay"
    ws_staged,           \* history: strips render_one has filled in this iteration
    ws_signals,          \* history: iterations of ws_task that reached xSemaphoreGive
    tick_gives,          \* history: xSemaphoreGive calls of the current iteration
    refresh_passes,      \* history: refresh passes begun
    unserved,            \* history: a signal was given and no pass has begun since
    \* ---- app_main.c: the service queue and service_manager_task ----
    s_service_queue,     \* the messages in the queue, oldest first
    svc_running,         \* static bool s_services_running of app_main.c
    s_wifi_connected,
    svc_sent,            \* history: messages offered to the queue
    svc_calls,           \* history: the calls made by service_manager_task, in order
    \* ---- ul_state.c: ul_state_task between its copy and the end of its write ----
    task_copy,           \* char *copy of ul_state_task and the entry it belongs to
    records_made,        \* history: ul_state_record_ws calls
    \* ---- ul_mqtt.c: dimming the lights while the broker is away ----
    s_ws_saved_bri,
    s_ws_saved_valid,
    s_lights_dimmed,
    mqtt_events,         \* history: events mqtt_event_handler has handled
    last_event,          \* history: the event handled last
    in_outage,           \* history: a disconnected event was handled, no connected one since
    dims_seen,           \* history: disconnected events of the present or the last outage
    bri_before,          \* history: each strip's brightness just before that outage, -1 if
                         \*          the strip was not enabled then
    cmd_between,         \* history: ul_ws_set_brightness was called by a command since
    bri_commands         \* history: brightness commands

coreVars == <<s_backoff_ms, s_wifi_event_group, event_bits, s_reconnect_timer, timer_delay_ms,
              sta, arm_log, cb_count, sync_fail, conn_cb>>

healthVars == <<clock, s_state, hpc, snapshot, now_us, ticked, rebooted, wifi_req, mqtt_req,
                req_since_reset, last_req, down_since, elig_log, heap_hist>>

restartVars == <<s_wifi_restart_mutex, mutex_alloc, mutex_holder, rpc, rlocal, panicked, ub>>

engineVars == <<family, cfg, phase, starts, ws_strips, s_refresh_sem, sem_count, s_refresh_task,
                s_ws_task, refresh_pc, rgb_strips, s_strip_count, s_rgb_task, s_ch, s_count,
                s_white_task, live, init_result, fail_dels, first_frame, busy_gives,
                passes_since_give, last_call, engine_obs>>

\* variables of the components modelled after the first four
stateVars == <<s_ready, s_entry_count, s_entries, s_queue, s_nvs, s_task, nvs_blob, state_live,
               state_age, state_rec, state_obs>>

clientVars == <<s_client, s_retry_timer, s_retry_pending, mqtt_ready, mqtt_live, start_failures,
                mqtt_obs>>

cmdVars == <<cmd_obs>>

fxVars == <<fx_in, fx_out>>

waitVars == <<tick_count, wait_pc, wait_start, wait_remaining, wait_until, wait_bits, wait_ret,
              wait_wakes>>

sntpVars == <<sntp_pc, s_sntp_task, s_sntp_retry_timer, sntp_timer_delay_ms,
              s_sntp_retry_delay_ms, s_sntp_retry_attempts, s_sntp_first_failure_us,
              s_sntp_last_failure_us, sntp_now_us, sntp_obs>>

tickVars == <<ws_pc, ws_staged, ws_signals, tick_gives, refresh_passes, unserved>>

svcVars == <<s_service_queue, svc_running, s_wifi_connected, svc_sent, svc_calls>>

flushVars == <<task_copy, records_made>>

lightVars == <<s_ws_saved_bri, s_ws_saved_valid, s_lights_dimmed, mqtt_events, last_event,
               in_outage, dims_seen, bri_before, cmd_between, bri_commands>>

\* the groups added last
moreVars == <<waitVars, sntpVars, tickVars, svcVars, flushVars, lightVars>>
besideWait == <<sntpVars, tickVars, svcVars, flushVars, lightVars>>
besideSntp == <<waitVars, tickVars, svcVars, flushVars, lightVars>>
besideTick == <<waitVars, sntpVars, svcVars, flushVars, lightVars>>
besideSvc == <<waitVars, sntpVars, tickVars, flushVars, lightVars>>
besideFlush == <<waitVars, sntpVars, tickVars, svcVars, lightVars>>
besideLight == <<waitVars, sntpVars, tickVars, svcVars, flushVars>>

laterVars == <<core_obs, stateVars, clientVars, cmdVars, fxVars, moreVars>>

vars == <<coreVars, healthVars, restartVars, engineVars, laterVars>>

\* The variables a subsystem's actions leave alone.
notCore == <<healthVars, restartVars, engineVars, laterVars>>
notHealth == <<coreVars, restartVars, engineVars, laterVars>>
notRestart == <<coreVars, healthVars, engineVars, laterVars>>
notEngines == <<coreVars, healthVars, restartVars, laterVars>>
firstVars == <<coreVars, healthVars, restartVars, engineVars>>
afterGroup == <<stateVars, clientVars, cmdVars, fxVars, moreVars>>
notState == <<firstVars, core_obs, clientVars, cmdVars, fxVars, moreVars>>
notClient == <<firstVars, core_obs, stateVars, cmdVars, fxVars, moreVars>>
notFx == <<firstVars, core_obs, stateVars, clientVars, cmdVars, moreVars>>
notMore == <<core_obs, stateVars, clientVars, cmdVars, fxVars>>

(***************************************************************************)
(* ul_core.c: constants                                                    *)
(***************************************************************************)
WIFI_MAX_BACKOFF_MS == 30000
WIFI_INITIAL_BACKOFF_MS == 1000

\* Disconnect events recorded per outage (the length of arm_log).
MaxDisconnects == 7

Min(a, b) == IF a < b THEN a ELSE b

RECURSIVE Pow2(_)
Pow2(n) == IF n = 0 THEN 1 ELSE 2 * Pow2(n - 1)

(***************************************************************************)
(* wifi_reconnect_timer_cb, lines 76-78: the backoff after one callback.   *)
(***************************************************************************)
NextBackoffUncapped(b) == b * 2

NextBackoff(b) == IF b * 2 > WIFI_MAX_BACKOFF_MS THEN WIFI_MAX_BACKOFF_MS ELSE b * 2

(***************************************************************************)
(* State after ul_core_wifi_start() returned normally: event group and     *)
(* timer created, esp_wifi_start() called, WIFI_EVENT_STA_START pending.   *)
(***************************************************************************)
InitCore ==
    /\ s_backoff_ms = WIFI_INITIAL_BACKOFF_MS
    /\ s_wifi_event_group = TRUE
    /\ event_bits = {}
    /\ s_reconnect_timer = "idle"
    /\ timer_delay_ms = 0
    /\ sta = "starting"
    /\ arm_log = <<>>
    /\ cb_count = 0
    /\ sync_fail = FALSE
    /\ conn_cb = "none"

(***************************************************************************)
(* wifi_event_handler, WIFI_EVENT_STA_START branch.                        *)
(***************************************************************************)
OnStaStart ==
    /\ sta = "starting"
    /\ s_wifi_event_group
    /\ s_backoff_ms' = WIFI_INITIAL_BACKOFF_MS
    /\ sta' = "connecting"                      \* esp_wifi_connect()
    /\ arm_log' = <<>>
    /\ cb_count' = 0
    /\ sync_fail' = FALSE
    /\ UNCHANGED <<s_wifi_event_group, event_bits, s_reconnect_timer, timer_delay_ms, conn_cb>>
    /\ UNCHANGED notCore

(***************************************************************************)
(* wifi_event_handler, WIFI_EVENT_STA_DISCONNECTED branch: the driver      *)
(* reports a failed connection attempt or a lost association.              *)
(***************************************************************************)
OnStaDisconnected ==
    /\ sta \in {"connecting", "connected"}
    /\ s_wifi_event_group
    /\ Len(arm_log) < MaxDisconnects
    /\ event_bits' = (event_bits \ {"CONNECTED"}) \cup {"FAIL"}
    /\ s_reconnect_timer' = "armed"             \* esp_timer_stop; esp_timer_start_once
    /\ timer_delay_ms' = s_backoff_ms
    /\ sta' = "idle"
    /\ arm_log' = Append(arm_log, <<s_backoff_ms, cb_count>>)
    /\ conn_cb' = "down"                        \* s_conn_cb(false, s_conn_ctx)
    /\ UNCHANGED <<s_backoff_ms, s_wifi_event_group, cb_count, sync_fail>>
    /\ UNCHANGED notCore

(***************************************************************************)
(* wifi_event_handler, IP_EVENT_STA_GOT_IP branch.                         *)
(***************************************************************************)
OnGotIp ==
    /\ sta = "connecting"
    /\ s_wifi_event_group
    /\ s_backoff_ms' = WIFI_INITIAL_BACKOFF_MS
    /\ event_bits' = event_bits \cup {"CONNECTED"}
    /\ sta' = "connected"
    /\ arm_log' = <<>>
    /\ cb_count' = 0
    /\ sync_fail' = FALSE
    /\ conn_cb' = "up"                          \* s_conn_cb(true, s_conn_ctx)
    /\ UNCHANGED <<s_wifi_event_group, s_reconnect_timer, timer_delay_ms>>
    /\ UNCHANGED notCore

(***************************************************************************)
(* wifi_reconnect_timer_cb: the one-shot timer expires.  esp_wifi_connect  *)
(* either starts an attempt (ok) or fails synchronously, in which case the *)
(* timer is re-armed with the backoff as it is before the doubling.        *)
(***************************************************************************)
wifi_reconnect_timer_cb(ok) ==
    /\ s_reconnect_timer = "armed"
    /\ s_wifi_event_group
    /\ event_bits' = event_bits \ {"FAIL"}
    /\ IF ok
          THEN /\ sta' = "connecting"
               /\ s_reconnect_timer' = "idle"
               /\ UNCHANGED <<timer_delay_ms, sync_fail>>
          ELSE /\ sta' = sta
               /\ s_reconnect_timer' = "armed"
               /\ timer_delay_ms' = s_backoff_ms
               /\ sync_fail' = TRUE
    /\ s_backoff_ms' = NextBackoff(s_backoff_ms)
    /\ cb_count' = IF cb_count < 2 * MaxDisconnects THEN cb_count + 1 ELSE cb_count
    /\ UNCHANGED <<s_wifi_event_group, arm_log, conn_cb>>
    /\ UNCHANGED notCore

TimerFires == \E ok \in BOOLEAN :
    /\ cb_count < 2 * MaxDisconnects
    /\ wifi_reconnect_timer_cb(ok)

(***************************************************************************)
(* ul_health.c: constants.  Time is counted in units of 5 minutes, the     *)
(* greatest common divisor of the monitor's thresholds; the task's period  *)
(* of 60 s is shorter than one unit.                                       *)
(***************************************************************************)
UL_HEALTH_LOG_INTERVAL_US == 3               \* 15 min
UL_HEALTH_WIFI_RECOVERY_DELAY_US == 3        \* 15 min
UL_HEALTH_WIFI_RECOVERY_RETRY_US == 2        \* 10 min
UL_HEALTH_WIFI_ESCALATE_US == 72             \* 6 h
UL_HEALTH_WIFI_MAX_RECOVERIES == 4
UL_HEALTH_MQTT_RECOVERY_DELAY_US == 1        \* 5 min
UL_HEALTH_MQTT_RECOVERY_RETRY_US == 1        \* 5 min
UL_HEALTH_MQTT_ESCALATE_US == 24             \* 2 h
UL_HEALTH_MQTT_MAX_RECOVERIES == 6
UL_HEALTH_HEAP_LOW_STRIKES == 5
UL_HEALTH_TIME_SYNC_WARN_US == 288           \* 24 h
UL_HEALTH_TIME_SYNC_ERROR_US == 2016         \* 7 days

\* Last time unit the health model runs to, and the last time unit in which
\* the network still delivers connectivity notifications.
MaxTime == 76
EventWindow == 6
\* Evaluations recorded per outage in elig_log.
MaxEligLog == 3
\* Heap checks remembered in heap_hist.
HeapWindow == 5

\* uint64_t subtraction.  2^64 microseconds do not fit the checker's integers;
\* the modulus used keeps what the comparisons depend on: a difference that
\* would be negative wraps to a value beyond every threshold.
U64_MODULUS == 2^30
U64Sub(a, b) == IF a >= b THEN a - b ELSE U64_MODULUS + a - b

(***************************************************************************)
(* ul_health_start (lines 70-90) at time 0, called by app_main before      *)
(* ul_core_wifi_start, so ul_core_is_connected() is false.                 *)
(***************************************************************************)
StartedState ==
    [started |-> TRUE, wifi_connected |-> FALSE, mqtt_connected |-> FALSE,
     time_sync_seen |-> FALSE, wifi_recovery_attempts |-> 0,
     mqtt_recovery_attempts |-> 0, heap_low_strikes |-> 0,
     wifi_last_change_us |-> 0, mqtt_last_change_us |-> 0,
     last_wifi_recovery_us |-> 0, last_mqtt_recovery_us |-> 0,
     last_metrics_log_us |-> 0, last_time_sync_us |-> 0]

InitHealth ==
    /\ clock = 0
    /\ s_state = StartedState
    /\ hpc = "sleep"
    /\ snapshot = StartedState
    /\ now_us = 0
    /\ ticked = FALSE
    /\ rebooted = "no"
    /\ wifi_req = FALSE
    /\ mqtt_req = FALSE
    /\ req_since_reset = 0
    /\ last_req = <<-1, -1>>
    /\ down_since = 0
    /\ elig_log = <<>>
    /\ heap_hist = <<>>

(***************************************************************************)
(* health_mark_wifi_recovery_attempt: whether the attempt is allowed, and  *)
(* s_state after the call.  One critical section.                          *)
(***************************************************************************)
WifiRetryAlways(now, last) == TRUE

WifiRetryElapsed(now, last) == U64Sub(now, last) >= UL_HEALTH_WIFI_RECOVERY_RETRY_US

WifiAttemptsLeft(st) == st.wifi_recovery_attempts < UL_HEALTH_WIFI_MAX_RECOVERIES

WifiMarkAllowed(st, now, count_attempt) ==
    /\ st.started
    /\ WifiRetryElapsed(now, st.last_wifi_recovery_us)
    /\ (~count_attempt \/ WifiAttemptsLeft(st))

WifiMarkState(st, now, count_attempt) ==
    IF WifiMarkAllowed(st, now, count_attempt)
       THEN [st EXCEPT !.wifi_recovery_attempts = IF count_attempt THEN @ + 1 ELSE @,
                       !.last_wifi_recovery_us = now]
       ELSE st

(***************************************************************************)
(* health_mark_mqtt_recovery_attempt.                                      *)
(***************************************************************************)
MqttMarkAllowed(st, now) ==
    /\ st.started
    /\ U64Sub(now, st.last_mqtt_recovery_us) >= UL_HEALTH_MQTT_RECOVERY_RETRY_US
    /\ st.mqtt_recovery_attempts < UL_HEALTH_MQTT_MAX_RECOVERIES

MqttMarkState(st, now) ==
    IF MqttMarkAllowed(st, now)
       THEN [st EXCEPT !.mqtt_recovery_attempts = @ + 1, !.last_mqtt_recovery_us = now]
       ELSE st

(***************************************************************************)
(* History kept beside a Wi-Fi recovery request issued with timestamp now. *)
(***************************************************************************)
NoteWifiRequest(now) ==
    /\ wifi_req' = TRUE
    /\ req_since_reset' = req_since_reset + 1
    /\ last_req' = <<last_req[2], now>>

NoWifiRequest ==
    /\ wifi_req' = FALSE
    /\ UNCHANGED <<req_since_reset, last_req>>

(***************************************************************************)
(* ul_health_notify_connectivity, called through connectivity_cb from the  *)
(* Wi-Fi event handler (disconnect, got-IP) and from ul_core_wifi_stop.    *)
(***************************************************************************)
HealthNotified(connected) ==
    /\ rebooted = "no"
    /\ s_state.started
    /\ s_state' = [s_state EXCEPT
                     !.wifi_connected = connected,
                     !.wifi_last_change_us = clock,
                     !.wifi_recovery_attempts = IF connected THEN 0 ELSE @,
                     !.last_wifi_recovery_us = IF connected THEN clock ELSE @]
    /\ down_since' = IF connected THEN -1
                     ELSE IF down_since = -1 THEN clock ELSE down_since
    /\ req_since_reset' = IF connected THEN 0 ELSE req_since_reset
    /\ elig_log' = <<>>
    /\ wifi_req' = FALSE
    /\ mqtt_req' = FALSE
    /\ UNCHANGED <<clock, hpc, snapshot, now_us, ticked, rebooted, last_req, heap_hist>>

ul_health_notify_connectivity(connected) ==
    /\ HealthNotified(connected)
    /\ UNCHANGED notHealth

(***************************************************************************)
(* ul_health_notify_mqtt.                                                  *)
(***************************************************************************)
ul_health_notify_mqtt(connected) ==
    /\ rebooted = "no"
    /\ s_state.started
    /\ s_state' = [s_state EXCEPT
                     !.mqtt_connected = connected,
                     !.mqtt_last_change_us = clock,
                     !.mqtt_recovery_attempts = IF connected THEN 0 ELSE @,
                     !.last_mqtt_recovery_us = IF connected THEN clock ELSE @]
    /\ wifi_req' = FALSE
    /\ mqtt_req' = FALSE
    /\ UNCHANGED <<clock, hpc, snapshot, now_us, ticked, rebooted, req_since_reset,
                   last_req, down_since, elig_log, heap_hist>>
    /\ UNCHANGED notHealth

(***************************************************************************)
(* ul_health_notify_time_sync.                                             *)
(***************************************************************************)
ul_health_notify_time_sync ==
    /\ rebooted = "no"
    /\ s_state.started
    /\ s_state' = [s_state EXCEPT !.time_sync_seen = TRUE, !.last_time_sync_us = clock]
    /\ wifi_req' = FALSE
    /\ mqtt_req' = FALSE
    /\ UNCHANGED <<clock, hpc, snapshot, now_us, ticked, rebooted, req_since_reset,
                   last_req, down_since, elig_log, heap_hist>>
    /\ UNCHANGED notHealth

(***************************************************************************)
(* The clock passes into the next time unit.  health_task wakes every      *)
(* 60 s, so it has run at least once in the unit that ends.                *)
(***************************************************************************)
Elapse(limit) ==
    /\ rebooted = "no"
    /\ ticked
    /\ clock < limit
    /\ clock' = clock + 1
    /\ ticked' = FALSE
    /\ wifi_req' = FALSE
    /\ mqtt_req' = FALSE
    /\ UNCHANGED <<s_state, hpc, snapshot, now_us, rebooted, req_since_reset, last_req,
                   down_since, elig_log, heap_hist>>
    /\ UNCHANGED notHealth

Advance == Elapse(MaxTime)

(***************************************************************************)
(* health_task, lines 245-268: wake, take the snapshot, read the clock and *)
(* the heap, throttle the metrics log, count heap-low strikes.             *)
(***************************************************************************)
\* health_update_heap_low: the strike count after a check
HeapStrikesKept(strikes, low) == IF low THEN strikes + 1 ELSE strikes

health_update_heap_low(strikes, low) == IF low THEN strikes + 1 ELSE 0

LastReadings(h) == IF Len(h) > HeapWindow THEN Tail(h) ELSE h

health_task_begin(heap_low) ==
    /\ rebooted = "no"
    /\ hpc = "sleep"
    /\ s_state.started
    /\ snapshot' = s_state
    /\ now_us' = clock
    /\ ticked' = TRUE
    /\ LET strikes == health_update_heap_low(s_state.heap_low_strikes, heap_low)
           logged == U64Sub(clock, s_state.last_metrics_log_us) >= UL_HEALTH_LOG_INTERVAL_US
           reboot == heap_low /\ strikes >= UL_HEALTH_HEAP_LOW_STRIKES
       IN /\ s_state' = [s_state EXCEPT
                           !.heap_low_strikes = strikes,
                           !.last_metrics_log_us = IF logged THEN clock ELSE @]
          /\ rebooted' = IF reboot THEN "heap" ELSE "no"
          /\ hpc' = IF reboot THEN "halted"
                    ELSE IF ~s_state.wifi_connected THEN "wifi" ELSE "mqtt"
    /\ wifi_req' = FALSE
    /\ mqtt_req' = FALSE
    /\ heap_hist' = LastReadings(Append(heap_hist, heap_low))
    /\ UNCHANGED <<clock, req_since_reset, last_req, down_since, elig_log>>
    /\ UNCHANGED notHealth

(***************************************************************************)
(* health_task, lines 270-294: the Wi-Fi-down policy.                      *)
(***************************************************************************)
WifiOffline(snap, now) == U64Sub(now, snap.wifi_last_change_us)

WifiRecoveryDue(snap, now) == WifiOffline(snap, now) >= UL_HEALTH_WIFI_RECOVERY_DELAY_US

WifiRebootDue(snap, now) ==
    /\ snap.wifi_recovery_attempts >= UL_HEALTH_WIFI_MAX_RECOVERIES
    /\ WifiOffline(snap, now) >= UL_HEALTH_WIFI_ESCALATE_US
    /\ U64Sub(now, snap.last_wifi_recovery_us) >= UL_HEALTH_WIFI_RECOVERY_RETRY_US

\* The evaluation about to run is made with Wi-Fi recorded down for at least
\* the recovery delay, in the snapshot and in s_state alike, and attempts left.
WifiEligible ==
    /\ hpc = "wifi"
    /\ ~snapshot.wifi_connected
    /\ ~s_state.wifi_connected
    /\ now_us >= snapshot.wifi_last_change_us + UL_HEALTH_WIFI_RECOVERY_DELAY_US
    /\ now_us >= s_state.wifi_last_change_us + UL_HEALTH_WIFI_RECOVERY_DELAY_US
    /\ s_state.wifi_recovery_attempts < UL_HEALTH_WIFI_MAX_RECOVERIES

health_task_wifi ==
    /\ rebooted = "no"
    /\ hpc = "wifi"
    /\ LET due == WifiRecoveryDue(snapshot, now_us)
           allowed == due /\ WifiMarkAllowed(s_state, now_us, TRUE)
           reboot == due /\ ~allowed /\ WifiRebootDue(snapshot, now_us)
       IN /\ s_state' = IF due THEN WifiMarkState(s_state, now_us, TRUE) ELSE s_state
          /\ IF allowed THEN NoteWifiRequest(now_us) ELSE NoWifiRequest
          /\ rebooted' = IF reboot THEN "wifi" ELSE "no"
          /\ hpc' = IF reboot THEN "halted" ELSE "sleep"      \* esp_restart / continue
          /\ snapshot' = IF reboot THEN snapshot ELSE StartedState
          /\ now_us' = IF reboot THEN now_us ELSE 0
          /\ elig_log' = IF WifiEligible /\ Len(elig_log) < MaxEligLog
                            THEN Append(elig_log, [t |-> now_us, fired |-> allowed])
                            ELSE elig_log
    /\ mqtt_req' = FALSE
    /\ UNCHANGED <<clock, ticked, down_since, heap_hist>>
    /\ UNCHANGED notHealth

(***************************************************************************)
(* health_task, lines 296-323: the MQTT-down policy, reached only when the *)
(* snapshot shows Wi-Fi connected.                                         *)
(***************************************************************************)
MqttOffline(snap, now) == U64Sub(now, snap.mqtt_last_change_us)

MqttEscalateNever(snap, now) == FALSE

MqttEscalateDue(snap, now) ==
    /\ snap.mqtt_recovery_attempts >= UL_HEALTH_MQTT_MAX_RECOVERIES
    /\ MqttOffline(snap, now) >= UL_HEALTH_MQTT_ESCALATE_US

health_task_mqtt ==
    /\ rebooted = "no"
    /\ hpc = "mqtt"
    /\ LET due == /\ ~snapshot.mqtt_connected
                  /\ MqttOffline(snapshot, now_us) >= UL_HEALTH_MQTT_RECOVERY_DELAY_US
           restart == due /\ MqttMarkAllowed(s_state, now_us)
           escalate == due /\ ~restart /\ MqttEscalateDue(snapshot, now_us)
           cycle == escalate /\ WifiMarkAllowed(s_state, now_us, TRUE)
       IN /\ s_state' = IF restart THEN MqttMarkState(s_state, now_us)
                        ELSE IF escalate THEN WifiMarkState(s_state, now_us, TRUE)
                        ELSE s_state
          /\ mqtt_req' = restart
          /\ IF cycle THEN NoteWifiRequest(now_us) ELSE NoWifiRequest
    /\ hpc' = "sync"
    /\ UNCHANGED <<clock, snapshot, now_us, ticked, rebooted, down_since, elig_log, heap_hist>>
    /\ UNCHANGED notHealth

(***************************************************************************)
(* health_task, lines 351-370: the time-sync policy.  (Lines 325-349 only  *)
(* throttle a log message about the SNTP resync task.)                     *)
(***************************************************************************)
SinceSync(snap, now) == U64Sub(now, snap.last_time_sync_us)

health_task_sync ==
    /\ rebooted = "no"
    /\ hpc = "sync"
    /\ LET reboot == /\ snapshot.time_sync_seen
                     /\ SinceSync(snapshot, now_us) >= UL_HEALTH_TIME_SYNC_ERROR_US
           warn == /\ snapshot.time_sync_seen
                   /\ ~reboot
                   /\ SinceSync(snapshot, now_us) >= UL_HEALTH_TIME_SYNC_WARN_US
           allowed == warn /\ WifiMarkAllowed(s_state, now_us, TRUE)
       IN /\ s_state' = IF warn THEN WifiMarkState(s_state, now_us, TRUE) ELSE s_state
          /\ IF allowed THEN NoteWifiRequest(now_us) ELSE NoWifiRequest
          /\ rebooted' = IF reboot THEN "timesync" ELSE "no"
          /\ hpc' = IF reboot THEN "halted" ELSE "sleep"
          /\ snapshot' = IF reboot THEN snapshot ELSE StartedState
          /\ now_us' = IF reboot THEN now_us ELSE 0
    /\ mqtt_req' = FALSE
    /\ UNCHANGED <<clock, ticked, down_since, elig_log, heap_hist>>
    /\ UNCHANGED notHealth

(***************************************************************************)
(* The health monitor with the Wi-Fi event handler delivering connectivity *)
(* notifications during the first EventWindow time units, the heap never   *)
(* low, the MQTT client never connecting and no time sync.                 *)
(***************************************************************************)
ConnectivityEvent == \E connected \in BOOLEAN :
    /\ clock <= EventWindow
    /\ ul_health_notify_connectivity(connected)

HealthTick ==
    \/ health_task_begin(FALSE)
    \/ health_task_wifi
    \/ health_task_mqtt
    \/ health_task_sync

NextHealth ==
    \/ Advance
    \/ ConnectivityEvent
    \/ HealthTick

(***************************************************************************)
(* The health monitor with both the Wi-Fi event handler and the MQTT       *)
(* client delivering notifications during the first MqttWindow time units  *)
(* and again around the time the MQTT outage reaches the escalation        *)
(* threshold, followed until MqttHorizon; the heap never low and no time   *)
(* sync.                                                                   *)
(***************************************************************************)
MqttWindow == 2
MqttLateWindow == 0
MqttHorizon == 33

MqttEventTime ==
    \/ clock <= MqttWindow
    \/ /\ clock >= UL_HEALTH_MQTT_ESCALATE_US
       /\ clock <= UL_HEALTH_MQTT_ESCALATE_US + MqttLateWindow

MqttWifiEvent == \E connected \in BOOLEAN :
    /\ MqttEventTime
    /\ ul_health_notify_connectivity(connected)

MqttEvent == \E connected \in BOOLEAN :
    /\ MqttEventTime
    /\ ul_health_notify_mqtt(connected)

NextMqtt ==
    \/ Elapse(MqttHorizon)
    \/ MqttWifiEvent
    \/ MqttEvent
    \/ HealthTick

(***************************************************************************)
(* The health monitor with any heap reading at each check, followed until  *)
(* HeapHorizon.                                                            *)
(***************************************************************************)
HeapHorizon == 2

HeapTick == \E heap_low \in BOOLEAN : health_task_begin(heap_low)

NextHeap ==
    \/ Elapse(HeapHorizon)
    \/ ConnectivityEvent
    \/ HeapTick
    \/ health_task_wifi
    \/ health_task_mqtt
    \/ health_task_sync

(***************************************************************************)
(* The health monitor over eight days: Wi-Fi and MQTT connect and the      *)
(* clock is synchronised, or not, during the first SyncWindow time units;  *)
(* no notification arrives afterwards.  The heap is never low.             *)
(***************************************************************************)
SyncWindow == 0
SyncHorizon == 2018

SyncEnvironment ==
    /\ clock <= SyncWindow
    /\ \/ ul_health_notify_connectivity(TRUE)
       \/ ul_health_notify_mqtt(TRUE)
       \/ ul_health_notify_time_sync

NextSync ==
    \/ Elapse(SyncHorizon)
    \/ SyncEnvironment
    \/ HealthTick

(***************************************************************************)
(* ul_core.c: ul_core_wifi_restart, ul_core_wifi_stop and                  *)
(* ul_core_wifi_start, called by NumCallers tasks.  Mutex handles are the  *)
(* numbers 1..MaxMutexes, 0 is NULL.  A call on a NULL handle, a wait on a *)
(* deleted mutex and a give by a task that is not the holder are undefined *)
(* in FreeRTOS: each is a choice among the outcomes it can have.           *)
(***************************************************************************)
NumCallers == 2
MaxMutexes == 2

Callers == 1..NumCallers
MutexIds == 1..MaxMutexes

InitRestart ==
    /\ s_wifi_restart_mutex = 1      \* created by ul_core_wifi_start at boot
    /\ mutex_alloc = [m \in MutexIds |-> IF m = 1 THEN "live" ELSE "unallocated"]
    /\ mutex_holder = [m \in MutexIds |-> 0]
    /\ rpc = [c \in Callers |-> "idle"]
    /\ rlocal = [c \in Callers |-> 0]
    /\ panicked = FALSE
    /\ ub = FALSE

Panic ==
    /\ panicked' = TRUE
    /\ UNCHANGED <<s_wifi_restart_mutex, mutex_alloc, mutex_holder, rpc, rlocal>>

\* line 226: if (!s_wifi_restart_mutex)
restart_enter(c) ==
    /\ ~panicked
    /\ rpc[c] = "idle"
    /\ rpc' = [rpc EXCEPT ![c] = IF s_wifi_restart_mutex = 0 THEN "create" ELSE "take"]
    /\ UNCHANGED <<s_wifi_restart_mutex, mutex_alloc, mutex_holder, rlocal, panicked, ub>>
    /\ UNCHANGED notRestart

\* lines 227-231: s_wifi_restart_mutex = xSemaphoreCreateMutex(), return on NULL
restart_create(c, ok) ==
    /\ ~panicked
    /\ rpc[c] = "create"
    /\ IF ok /\ \E m \in MutexIds : mutex_alloc[m] = "unallocated"
          THEN LET m == CHOOSE x \in MutexIds :
                            /\ mutex_alloc[x] = "unallocated"
                            /\ \A y \in MutexIds : mutex_alloc[y] = "unallocated" => x <= y
               IN /\ mutex_alloc' = [mutex_alloc EXCEPT ![m] = "live"]
                  /\ s_wifi_restart_mutex' = m
                  /\ rpc' = [rpc EXCEPT ![c] = "take"]
          ELSE /\ rpc' = [rpc EXCEPT ![c] = "idle"]
               /\ UNCHANGED <<s_wifi_restart_mutex, mutex_alloc>>
    /\ UNCHANGED <<mutex_holder, rlocal, panicked, ub>>
    /\ UNCHANGED notRestart

\* line 234: xSemaphoreTake(s_wifi_restart_mutex, ...) is called with the
\* handle the global holds now
restart_take(c) ==
    /\ ~panicked
    /\ rpc[c] = "take"
    /\ IF s_wifi_restart_mutex = 0
          THEN /\ Panic
               /\ ub' = TRUE
          ELSE /\ rlocal' = [rlocal EXCEPT ![c] = s_wifi_restart_mutex]
               /\ rpc' = [rpc EXCEPT ![c] = "wait"]
               /\ UNCHANGED <<s_wifi_restart_mutex, mutex_alloc, mutex_holder, panicked, ub>>
    /\ UNCHANGED notRestart

\* xSemaphoreTake returns pdTRUE
restart_acquire(c) ==
    /\ ~panicked
    /\ rpc[c] = "wait"
    /\ mutex_alloc[rlocal[c]] = "live"
    /\ mutex_holder[rlocal[c]] = 0
    /\ mutex_holder' = [mutex_holder EXCEPT ![rlocal[c]] = c]
    /\ rpc' = [rpc EXCEPT ![c] = "stop"]
    /\ rlocal' = [rlocal EXCEPT ![c] = 0]
    /\ UNCHANGED <<s_wifi_restart_mutex, mutex_alloc, panicked, ub>>
    /\ UNCHANGED notRestart

\* lines 234-237: the mutex stayed taken for 10 s; return without stop or start
restart_timeout(c) ==
    /\ ~panicked
    /\ rpc[c] = "wait"
    /\ mutex_alloc[rlocal[c]] = "live"
    /\ mutex_holder[rlocal[c]] # 0
    /\ rpc' = [rpc EXCEPT ![c] = "idle"]
    /\ rlocal' = [rlocal EXCEPT ![c] = 0]
    /\ UNCHANGED <<s_wifi_restart_mutex, mutex_alloc, mutex_holder, panicked, ub>>
    /\ UNCHANGED notRestart

\* the mutex waited for has been deleted under the waiter
restart_wait_deleted(c, outcome) ==
    /\ ~panicked
    /\ rpc[c] = "wait"
    /\ mutex_alloc[rlocal[c]] = "deleted"
    /\ ub' = TRUE
    /\ CASE outcome = "panic" -> Panic
         [] outcome = "timeout" ->
               /\ rpc' = [rpc EXCEPT ![c] = "idle"]
               /\ rlocal' = [rlocal EXCEPT ![c] = 0]
               /\ UNCHANGED <<s_wifi_restart_mutex, mutex_alloc, mutex_holder, panicked>>
         [] outcome = "taken" ->
               /\ rpc' = [rpc EXCEPT ![c] = "stop"]
               /\ rlocal' = [rlocal EXCEPT ![c] = 0]
               /\ UNCHANGED <<s_wifi_restart_mutex, mutex_alloc, mutex_holder, panicked>>
    /\ UNCHANGED notRestart

\* line 240: ul_core_wifi_stop (lines 198-223)
ul_core_wifi_stop(c) ==
    /\ ~panicked
    /\ rpc[c] = "stop"
    /\ s_reconnect_timer' = "null"
    /\ HealthNotified(FALSE)                 \* s_conn_cb(false, s_conn_ctx)
    /\ sta' = "stopped"                      \* esp_wifi_stop, esp_wifi_deinit
    /\ s_wifi_event_group' = FALSE
    /\ event_bits' = {}
    /\ rpc' = [rpc EXCEPT ![c] = "delay"]
    /\ conn_cb' = "down"
    /\ UNCHANGED <<s_backoff_ms, timer_delay_ms, arm_log, cb_count, sync_fail>>
    /\ UNCHANGED <<s_wifi_restart_mutex, mutex_alloc, mutex_holder, rlocal, panicked, ub>>
    /\ UNCHANGED <<engineVars, laterVars>>

\* line 241: vTaskDelay(pdMS_TO_TICKS(200))
restart_delay(c) ==
    /\ ~panicked
    /\ rpc[c] = "delay"
    /\ rpc' = [rpc EXCEPT ![c] = "start"]
    /\ UNCHANGED <<s_wifi_restart_mutex, mutex_alloc, mutex_holder, rlocal, panicked, ub>>
    /\ UNCHANGED notRestart

\* line 242: ul_core_wifi_start with xEventGroupCreate succeeding (lines
\* 108-109, 124-166); the node is provisioned, so the credentials load.
ul_core_wifi_start_ok(c, mutex_ok) ==
    /\ ~panicked
    /\ rpc[c] = "start"
    /\ s_wifi_event_group' = TRUE
    /\ event_bits' = {}
    /\ IF s_wifi_restart_mutex = 0 /\ mutex_ok /\ \E m \in MutexIds : mutex_alloc[m] = "unallocated"
          THEN LET m == CHOOSE x \in MutexIds :
                            /\ mutex_alloc[x] = "unallocated"
                            /\ \A y \in MutexIds : mutex_alloc[y] = "unallocated" => x <= y
               IN /\ mutex_alloc' = [mutex_alloc EXCEPT ![m] = "live"]
                  /\ s_wifi_restart_mutex' = m
          ELSE UNCHANGED <<s_wifi_restart_mutex, mutex_alloc>>
    /\ s_reconnect_timer' = "idle"
    /\ sta' = "starting"
    /\ rpc' = [rpc EXCEPT ![c] = "give"]
    /\ UNCHANGED <<s_backoff_ms, timer_delay_ms, arm_log, cb_count, sync_fail, conn_cb>>
    /\ UNCHANGED <<mutex_holder, rlocal, panicked, ub>>
    /\ UNCHANGED <<healthVars, engineVars, laterVars>>

semaphore_kept(alloc, m) == alloc

vSemaphoreDelete(alloc, m) == [alloc EXCEPT ![m] = "deleted"]

\* line 242: ul_core_wifi_start with xEventGroupCreate failing: the cleanup of
\* lines 110-120, which deletes the restart mutex and clears the global
ul_core_wifi_start_fail(c) ==
    /\ ~panicked
    /\ rpc[c] = "start"
    /\ s_reconnect_timer' = "null"
    /\ IF s_wifi_restart_mutex # 0
          THEN /\ mutex_alloc' = vSemaphoreDelete(mutex_alloc, s_wifi_restart_mutex)
               /\ mutex_holder' = [mutex_holder EXCEPT ![s_wifi_restart_mutex] = 0]
               /\ s_wifi_restart_mutex' = 0
          ELSE UNCHANGED <<s_wifi_restart_mutex, mutex_alloc, mutex_holder>>
    /\ rpc' = [rpc EXCEPT ![c] = "start_return"]
    /\ UNCHANGED <<s_backoff_ms, s_wifi_event_group, event_bits, timer_delay_ms, sta,
                   arm_log, cb_count, sync_fail, conn_cb>>
    /\ UNCHANGED <<rlocal, panicked, ub>>
    /\ UNCHANGED <<healthVars, engineVars, laterVars>>

\* line 121: return from the failed ul_core_wifi_start
ul_core_wifi_start_return(c) ==
    /\ ~panicked
    /\ rpc[c] = "start_return"
    /\ rpc' = [rpc EXCEPT ![c] = "give"]
    /\ UNCHANGED <<s_wifi_restart_mutex, mutex_alloc, mutex_holder, rlocal, panicked, ub>>
    /\ UNCHANGED notRestart

\* line 244: xSemaphoreGive(s_wifi_restart_mutex), the global read again
restart_give(c, outcome) ==
    /\ ~panicked
    /\ rpc[c] = "give"
    /\ IF s_wifi_restart_mutex # 0 /\ mutex_holder[s_wifi_restart_mutex] = c
          THEN /\ outcome = "released"
               /\ mutex_holder' = [mutex_holder EXCEPT ![s_wifi_restart_mutex] = 0]
               /\ rpc' = [rpc EXCEPT ![c] = "idle"]
               /\ UNCHANGED <<s_wifi_restart_mutex, mutex_alloc, rlocal, panicked, ub>>
          ELSE /\ ub' = TRUE
               /\ IF outcome = "released" /\ s_wifi_restart_mutex # 0
                     THEN /\ mutex_holder' = [mutex_holder EXCEPT ![s_wifi_restart_mutex] = 0]
                          /\ rpc' = [rpc EXCEPT ![c] = "idle"]
                          /\ UNCHANGED <<s_wifi_restart_mutex, mutex_alloc, rlocal, panicked>>
                     ELSE Panic
    /\ UNCHANGED notRestart

ul_core_wifi_restart(c) ==
    \/ restart_enter(c)
    \/ \E ok \in BOOLEAN : restart_create(c, ok)
    \/ restart_take(c)
    \/ restart_acquire(c)
    \/ restart_timeout(c)
    \/ \E outcome \in {"panic", "timeout", "taken"} : restart_wait_deleted(c, outcome)
    \/ ul_core_wifi_stop(c)
    \/ restart_delay(c)
    \/ \E mutex_ok \in BOOLEAN : ul_core_wifi_start_ok(c, mutex_ok)
    \/ ul_core_wifi_start_fail(c)
    \/ ul_core_wifi_start_return(c)
    \/ \E outcome \in {"panic", "released"} : restart_give(c, outcome)

NextRestart == \E c \in Callers : ul_core_wifi_restart(c)

NextWifi ==
    \/ OnStaStart
    \/ OnStaDisconnected
    \/ OnGotIp
    \/ TimerFires

(***************************************************************************)
(* ul_core.c entered while the event group may be missing: the event       *)
(* handler, the reconnect-timer callback, ul_core_wait_for_ip and          *)
(* ul_core_is_connected, each with its test of s_wifi_event_group.         *)
(***************************************************************************)
WifiEvents == {"STA_START", "STA_DISCONNECTED", "GOT_IP"}

CoreCall(fn, ret, waits) == [fn |-> fn, ret |-> ret, waits |-> waits]

InitGroup ==
    /\ core_obs = CoreCall("none", FALSE, 0)

\* wifi_event_handler, lines 85-106
wifi_event_handler(ev) ==
    IF ~s_wifi_event_group
       THEN /\ core_obs' = CoreCall(ev, FALSE, 0)
            /\ UNCHANGED <<firstVars, afterGroup>>
       ELSE CASE ev = "STA_START" -> OnStaStart
              [] ev = "STA_DISCONNECTED" -> OnStaDisconnected
              [] OTHER -> OnGotIp

\* wifi_reconnect_timer_cb, lines 67-80
reconnect_timer_expired(ok) ==
    IF ~s_wifi_event_group
       THEN /\ core_obs' = CoreCall("timer_cb", FALSE, 0)
            /\ UNCHANGED <<firstVars, afterGroup>>
       ELSE TimerFires

\* ul_core_wait_for_ip, lines 168-188: without an event group it returns
\* false at once; with one it waits for a bit, returns true on the connected
\* bit, and otherwise clears the fail bit and runs into its timeout
ul_core_wait_for_ip ==
    /\ core_obs' = IF ~s_wifi_event_group THEN CoreCall("wait_for_ip", FALSE, 0)
                   ELSE CoreCall("wait_for_ip", "CONNECTED" \in event_bits, 1)
    /\ event_bits' = IF s_wifi_event_group /\ "CONNECTED" \notin event_bits
                        THEN event_bits \ {"FAIL"}
                        ELSE event_bits
    /\ UNCHANGED <<s_backoff_ms, s_wifi_event_group, s_reconnect_timer, timer_delay_ms, sta,
                   arm_log, cb_count, sync_fail, conn_cb>>
    /\ UNCHANGED <<healthVars, restartVars, engineVars, afterGroup>>

\* ul_core_is_connected, lines 190-195
ul_core_is_connected ==
    /\ core_obs' = CoreCall("is_connected",
                            s_wifi_event_group /\ "CONNECTED" \in event_bits, 0)
    /\ UNCHANGED <<firstVars, afterGroup>>

GroupDisconnects == 1     \* disconnects and timer callbacks between two starts
GroupEvents == Len(arm_log) < GroupDisconnects /\ cb_count < GroupDisconnects

NextGroup ==
    \/ \E c \in Callers : ul_core_wifi_restart(c)
    \/ \E ev \in WifiEvents : GroupEvents /\ wifi_event_handler(ev)
    \/ \E ok \in BOOLEAN : GroupEvents /\ reconnect_timer_expired(ok)
    \/ ul_core_wait_for_ip
    \/ ul_core_is_connected

(***************************************************************************)
(* The effect engines: ul_ws_engine.c, ul_rgb_engine.c, ul_white_engine.c. *)
(* The three engines share no state.  A behaviour exercises one of them,   *)
(* chosen initially together with the compile-time channel configuration   *)
(* (the CONFIG_UL_*_ENABLED flags), so that the state space is the sum of  *)
(* the three engines' state spaces.  The caller alternates start and stop  *)
(* as service_manager_task does with s_services_running; stop may also be  *)
(* called on a stopped engine.                                             *)
(***************************************************************************)
MaxStarts == 2          \* start/stop cycles in a behaviour
MaxFrame == 2           \* frames rendered after an effect is set
MaxGives == 2           \* refresh signals counted while a refresh pass runs
CONFIG_UL_WS_PIXELS == 3 \* CONFIG_UL_WS0_PIXELS, CONFIG_UL_WS1_PIXELS: any positive count

WsIdx == {0, 1}          \* static ws_strip_t s_strips[2]
PwmIdx == 0..3           \* static rgb_strip_t s_strips[4], static white_ch_t s_ch[4]

\* Effect names of the registries (the first entry is the default), the names
\* requests are made with, and find_effect_by_name / find_effect / find_eff.
WsEffects == {"solid", "color_swell"}
RgbEffects == {"solid", "color_swell"}
WhiteEffects == {"solid", "swell"}
RequestedNames == {"solid", "color_swell", "swell"}

find_any_effect(tbl, name) == name

find_effect(tbl, name) == IF name \in tbl THEN name ELSE "none"

InitOutcomes == {"ok", "new_fail", "clear_fail", "alloc_fail"}

\* xSemaphoreGive on a binary semaphore, and on a counting one
SemGiveCounting(count) == count + 1

SemGive(count) == IF count < 1 THEN count + 1 ELSE count

(***************************************************************************)
(* ul_ws_engine.c                                                          *)
(***************************************************************************)
WsDisabledStrip ==
    [eff |-> "none", brightness |-> 0, frame_pos |-> 0, pixels |-> 0,
     handle |-> FALSE, frame |-> FALSE]

keep_strip(s) == s

deinit_strip(s) == WsDisabledStrip

\* led_strip_del and free calls that deinit_strip makes on s
DelCalls(s) == IF s.handle /\ ~deinit_strip(s).handle THEN 1 ELSE 0
FreeCalls(s) == IF s.frame /\ ~deinit_strip(s).frame THEN 1 ELSE 0

\* init_strip: the strip after the call, for each outcome of the driver and
\* the allocator
init_strip(s, enabled, outcome) ==
    LET cleared == deinit_strip(s)
        created == [cleared EXCEPT !.handle = TRUE]
    IN IF ~enabled THEN cleared
       ELSE IF outcome = "new_fail" THEN cleared
       ELSE IF outcome \in {"clear_fail", "alloc_fail"} THEN deinit_strip(created)
       ELSE [created EXCEPT !.frame = TRUE, !.pixels = CONFIG_UL_WS_PIXELS,
                            !.eff = "solid", !.brightness = 255, !.frame_pos = 0]

\* led_strip_del calls init_strip makes on the handle it has just created
InitFailDels(s, enabled, outcome) ==
    IF enabled /\ outcome \in {"clear_fail", "alloc_fail"}
       THEN DelCalls([deinit_strip(s) EXCEPT !.handle = TRUE])
       ELSE 0

\* handles and frame buffers of a strip that are allocated and not released
\* after init_strip, given the numbers before it
HandlesAfterInit(n, s, enabled, outcome) ==
    n - DelCalls(s) + (IF enabled /\ outcome # "new_fail" THEN 1 ELSE 0)
      - InitFailDels(s, enabled, outcome)

FramesAfterInit(n, s, enabled, outcome) ==
    n - FreeCalls(s) + (IF enabled /\ outcome = "ok" THEN 1 ELSE 0)

ul_ws_get_strip_count == Cardinality({k \in WsIdx : k \in cfg /\ ws_strips[k].pixels > 0})

get_strip(idx) == idx \in WsIdx /\ ws_strips[idx].pixels > 0

NoFirstFrames == [i \in PwmIdx |-> -2]

\* the record of a start or stop call: whether ul_task_create was called and
\* passed in the call before it and in this call, the value returned (TRUE for
\* the void functions), the ok and failure reports it made, and the white
\* outputs after it
Observed(before, call, create, ret, ok, failure, out) ==
    [before |-> before, call |-> call, create |-> create, ret |-> ret, ok |-> ok,
     failure |-> failure, out |-> out]

NoCall == [fn |-> "none", ch |-> 0, name |-> "none", ret |-> FALSE, init |-> "none",
           out |-> "untouched"]

\* The engines' static data at boot
EnginesBoot ==
    /\ phase = "stopped"
    /\ starts = 0
    /\ ws_strips = [k \in WsIdx |-> WsDisabledStrip]
    /\ s_refresh_sem = FALSE
    /\ sem_count = 0
    /\ s_refresh_task = FALSE
    /\ s_ws_task = FALSE
    /\ refresh_pc = "idle"
    /\ rgb_strips = [i \in PwmIdx |-> [enabled |-> FALSE, eff |-> "none", frame_idx |-> 0,
                                       configured |-> FALSE]]
    /\ s_strip_count = 0
    /\ s_rgb_task = FALSE
    /\ s_ch = [i \in PwmIdx |-> [enabled |-> FALSE, eff |-> "none", frame_idx |-> 0]]
    /\ s_count = 0
    /\ s_white_task = FALSE
    /\ live = [handles |-> [k \in WsIdx |-> 0], frames |-> [k \in WsIdx |-> 0],
               tasks |-> 0, sems |-> 0]
    /\ init_result = [k \in WsIdx |-> "none"]
    /\ fail_dels = [k \in WsIdx |-> 0]
    /\ first_frame = NoFirstFrames
    /\ busy_gives = 0
    /\ passes_since_give = 0
    /\ last_call = NoCall
    /\ engine_obs = Observed("none", "none", "none", TRUE, 0, 0, [i \in PwmIdx |-> "unset"])

ul_ws_engine_start(connected, o0, o1, sem_ok, refresh_ok, ws_ok) ==
    /\ family = "ws"
    /\ starts < MaxStarts
    /\ phase' = "started"
    /\ starts' = starts + 1
    /\ IF ~connected
          THEN UNCHANGED <<ws_strips, s_refresh_sem, sem_count, s_refresh_task, s_ws_task,
                           live, init_result, fail_dels>>
          ELSE LET o == [k \in WsIdx |-> IF k = 0 THEN o0 ELSE o1]
                   inited == [k \in WsIdx |-> init_strip(ws_strips[k], k \in cfg, o[k])]
                   h1 == [k \in WsIdx |->
                            HandlesAfterInit(live.handles[k], ws_strips[k], k \in cfg, o[k])]
                   f1 == [k \in WsIdx |->
                            FramesAfterInit(live.frames[k], ws_strips[k], k \in cfg, o[k])]
               IN /\ ws_strips' = IF sem_ok THEN inited
                                  ELSE [k \in WsIdx |-> deinit_strip(inited[k])]
                  /\ s_refresh_sem' = sem_ok
                  /\ sem_count' = IF sem_ok THEN SemGive(0) ELSE 0
                  /\ s_refresh_task' = IF sem_ok /\ refresh_ok THEN TRUE ELSE s_refresh_task
                  /\ s_ws_task' = IF sem_ok /\ ws_ok THEN TRUE ELSE s_ws_task
                  /\ live' = [handles |-> IF sem_ok THEN h1
                                          ELSE [k \in WsIdx |-> h1[k] - DelCalls(inited[k])],
                              frames |-> IF sem_ok THEN f1
                                         ELSE [k \in WsIdx |-> f1[k] - FreeCalls(inited[k])],
                              tasks |-> live.tasks
                                          + (IF sem_ok /\ refresh_ok THEN 1 ELSE 0)
                                          + (IF sem_ok /\ ws_ok THEN 1 ELSE 0),
                              sems |-> live.sems + (IF sem_ok THEN 1 ELSE 0)]
                  /\ init_result' = [k \in WsIdx |-> IF k \in cfg THEN o[k] ELSE "disabled"]
                  /\ fail_dels' = [k \in WsIdx |-> InitFailDels(ws_strips[k], k \in cfg, o[k])]
    /\ refresh_pc' = "idle"
    /\ first_frame' = NoFirstFrames
    /\ busy_gives' = 0
    /\ passes_since_give' = 0
    /\ UNCHANGED <<family, cfg, rgb_strips, s_strip_count, s_rgb_task, s_ch, s_count, s_white_task>>
    /\ engine_obs' = Observed(engine_obs.create, "start",
                              IF ~(connected /\ sem_ok) THEN "none"
                              ELSE IF refresh_ok /\ ws_ok THEN "pass" ELSE "fail",
                              TRUE, 0, 0, engine_obs.out)
    /\ UNCHANGED <<last_call, notEngines>>

ul_ws_engine_stop ==
    /\ family = "ws"
    /\ phase' = "stopped"
    /\ s_refresh_task' = FALSE
    /\ s_ws_task' = FALSE
    /\ ws_strips' = [k \in WsIdx |-> deinit_strip(ws_strips[k])]
    /\ s_refresh_sem' = FALSE
    /\ sem_count' = 0
    /\ live' = [handles |-> [k \in WsIdx |-> live.handles[k] - DelCalls(ws_strips[k])],
                frames |-> [k \in WsIdx |-> live.frames[k] - FreeCalls(ws_strips[k])],
                tasks |-> live.tasks - (IF s_refresh_task THEN 1 ELSE 0)
                                     - (IF s_ws_task THEN 1 ELSE 0),
                sems |-> live.sems - (IF s_refresh_sem THEN 1 ELSE 0)]
    /\ init_result' = [k \in WsIdx |-> "none"]
    /\ fail_dels' = [k \in WsIdx |-> 0]
    /\ refresh_pc' = "idle"
    /\ first_frame' = NoFirstFrames
    /\ busy_gives' = 0
    /\ passes_since_give' = 0
    /\ UNCHANGED <<family, cfg, starts, rgb_strips, s_strip_count, s_rgb_task, s_ch, s_count,
                   s_white_task>>
    /\ engine_obs' = Observed(engine_obs.create, "stop", "none", TRUE, 0, 0, engine_obs.out)
    /\ UNCHANGED <<last_call, notEngines>>

ws_set_effect_ok(strip, name) == get_strip(strip) /\ find_effect(WsEffects, name) # "none"

ul_ws_set_effect(strip, name) ==
    /\ family = "ws"
    /\ LET e == find_effect(WsEffects, name)
       IN IF ws_set_effect_ok(strip, name)
             THEN /\ ws_strips' = [ws_strips EXCEPT ![strip].eff = e, ![strip].frame_pos = 0]
                  /\ first_frame' = [first_frame EXCEPT ![strip] = -1]
             ELSE UNCHANGED <<ws_strips, first_frame>>
    /\ UNCHANGED <<family, cfg, phase, starts, s_refresh_sem, sem_count, s_refresh_task,
                   s_ws_task, refresh_pc, rgb_strips, s_strip_count, s_rgb_task, s_ch, s_count,
                   s_white_task, live, init_result, fail_dels, busy_gives, passes_since_give>>
    /\ UNCHANGED <<engine_obs, notEngines>>

\* render_one: whether the strip is rendered, the frame index passed to the
\* effect's render function, and the strip after the call
WsRendered(k) == k \in cfg /\ ws_strips[k].pixels # 0 /\ ws_strips[k].handle /\ ws_strips[k].eff # "none"

WsFrameIdx(s) == s.frame_pos + 1

\* one iteration of ws_task's loop
ws_task ==
    /\ family = "ws"
    /\ s_ws_task
    /\ \A k \in WsIdx : WsRendered(k) => ws_strips[k].frame_pos < MaxFrame
    /\ busy_gives < MaxGives
    /\ ws_strips' = [k \in WsIdx |->
                       IF WsRendered(k)
                          THEN [ws_strips[k] EXCEPT !.frame_pos = @ + 1]
                          ELSE ws_strips[k]]
    /\ first_frame' = [i \in PwmIdx |->
                         IF i \in WsIdx /\ WsRendered(i) /\ first_frame[i] = -1
                            THEN WsFrameIdx(ws_strips[i])
                            ELSE first_frame[i]]
    /\ sem_count' = IF s_refresh_sem THEN SemGive(sem_count) ELSE sem_count
    /\ busy_gives' = IF s_refresh_sem /\ refresh_pc = "busy" THEN busy_gives + 1 ELSE busy_gives
    /\ passes_since_give' = IF s_refresh_sem THEN 0 ELSE passes_since_give
    /\ UNCHANGED <<family, cfg, phase, starts, s_refresh_sem, s_refresh_task, s_ws_task,
                   refresh_pc, rgb_strips, s_strip_count, s_rgb_task, s_ch, s_count,
                   s_white_task, live, init_result, fail_dels>>
    /\ UNCHANGED <<last_call, engine_obs, notEngines>>

\* led_refresh_task: xSemaphoreTake returns pdTRUE and a refresh pass begins
led_refresh_task_take ==
    /\ family = "ws"
    /\ s_refresh_task
    /\ refresh_pc = "idle"
    /\ s_refresh_sem
    /\ sem_count > 0
    /\ sem_count' = sem_count - 1
    /\ refresh_pc' = "busy"
    /\ busy_gives' = 0
    /\ passes_since_give' = passes_since_give + 1
    /\ UNCHANGED <<family, cfg, phase, starts, ws_strips, s_refresh_sem, s_refresh_task,
                   s_ws_task, rgb_strips, s_strip_count, s_rgb_task, s_ch, s_count,
                   s_white_task, live, init_result, fail_dels, first_frame>>
    /\ UNCHANGED <<last_call, engine_obs, notEngines>>

\* led_refresh_task: the led_strip_refresh calls are done, back to xSemaphoreTake
led_refresh_task_done ==
    /\ family = "ws"
    /\ s_refresh_task
    /\ refresh_pc = "busy"
    /\ refresh_pc' = "idle"
    /\ UNCHANGED <<family, cfg, phase, starts, ws_strips, s_refresh_sem, sem_count,
                   s_refresh_task, s_ws_task, rgb_strips, s_strip_count, s_rgb_task, s_ch,
                   s_count, s_white_task, live, init_result, fail_dels, first_frame,
                   busy_gives, passes_since_give>>
    /\ UNCHANGED <<last_call, engine_obs, notEngines>>

(***************************************************************************)
(* ul_rgb_engine.c                                                         *)
(***************************************************************************)
RgbZeroStrip == [enabled |-> FALSE, eff |-> "none", frame_idx |-> 0, configured |-> FALSE]

\* strip_init for an enabled strip, after the memset
strip_init == [enabled |-> TRUE, eff |-> "solid", frame_idx |-> 0, configured |-> TRUE]

ul_rgb_engine_start(task_ok) ==
    /\ family = "rgb"
    /\ starts < MaxStarts
    /\ phase' = "started"
    /\ starts' = starts + 1
    /\ rgb_strips' = [i \in PwmIdx |-> IF i \in cfg THEN strip_init ELSE RgbZeroStrip]
    /\ s_strip_count' = Cardinality(cfg)
    /\ s_rgb_task' = IF cfg # {} /\ task_ok THEN TRUE ELSE s_rgb_task
    /\ live' = [live EXCEPT !.tasks = @ + (IF cfg # {} /\ task_ok THEN 1 ELSE 0)]
    /\ first_frame' = NoFirstFrames
    /\ UNCHANGED <<family, cfg, ws_strips, s_refresh_sem, sem_count, s_refresh_task, s_ws_task,
                   refresh_pc, s_ch, s_count, s_white_task, init_result, fail_dels, busy_gives,
                   passes_since_give>>
    /\ engine_obs' = Observed(engine_obs.create, "start",
                              IF cfg = {} THEN "none" ELSE IF task_ok THEN "pass" ELSE "fail",
                              TRUE, 0, 0, engine_obs.out)
    /\ UNCHANGED <<last_call, notEngines>>

ul_rgb_engine_stop ==
    /\ family = "rgb"
    /\ phase' = "stopped"
    /\ s_rgb_task' = FALSE
    /\ rgb_strips' = [i \in PwmIdx |-> [rgb_strips[i] EXCEPT !.enabled = FALSE]]
    /\ s_strip_count' = 0
    /\ live' = [live EXCEPT !.tasks = @ - (IF s_rgb_task THEN 1 ELSE 0)]
    /\ first_frame' = NoFirstFrames
    /\ UNCHANGED <<family, cfg, starts, ws_strips, s_refresh_sem, sem_count, s_refresh_task,
                   s_ws_task, refresh_pc, s_ch, s_count, s_white_task, init_result, fail_dels,
                   busy_gives, passes_since_give>>
    /\ engine_obs' = Observed(engine_obs.create, "stop", "none", TRUE, 0, 0, engine_obs.out)
    /\ UNCHANGED <<last_call, notEngines>>

rgb_get_strip(idx) == idx \in PwmIdx /\ rgb_strips[idx].enabled

rgb_set_effect_ok(strip, name) == rgb_get_strip(strip) /\ find_effect(RgbEffects, name) # "none"

ul_rgb_set_effect(strip, name) ==
    /\ family = "rgb"
    /\ LET e == find_effect(RgbEffects, name)
       IN IF rgb_set_effect_ok(strip, name)
             THEN /\ rgb_strips' = [rgb_strips EXCEPT ![strip].eff = e, ![strip].frame_idx = 0]
                  /\ first_frame' = [first_frame EXCEPT ![strip] = -1]
             ELSE UNCHANGED <<rgb_strips, first_frame>>
    /\ UNCHANGED <<family, cfg, phase, starts, ws_strips, s_refresh_sem, sem_count,
                   s_refresh_task, s_ws_task, refresh_pc, s_strip_count, s_rgb_task, s_ch,
                   s_count, s_white_task, live, init_result, fail_dels, busy_gives,
                   passes_since_give>>
    /\ UNCHANGED <<engine_obs, notEngines>>

RgbRendered(i) == rgb_strips[i].enabled /\ rgb_strips[i].eff # "none"

\* one iteration of rgb_task's loop: render(i, rgb, s->frame_idx++)
rgb_task ==
    /\ family = "rgb"
    /\ s_rgb_task
    /\ \E i \in PwmIdx : RgbRendered(i)
    /\ \A i \in PwmIdx : RgbRendered(i) => rgb_strips[i].frame_idx < MaxFrame
    /\ rgb_strips' = [i \in PwmIdx |->
                        IF RgbRendered(i)
                           THEN [rgb_strips[i] EXCEPT !.frame_idx = @ + 1]
                           ELSE rgb_strips[i]]
    /\ first_frame' = [i \in PwmIdx |->
                         IF RgbRendered(i) /\ first_frame[i] = -1
                            THEN rgb_strips[i].frame_idx
                            ELSE first_frame[i]]
    /\ UNCHANGED <<family, cfg, phase, starts, ws_strips, s_refresh_sem, sem_count,
                   s_refresh_task, s_ws_task, refresh_pc, s_strip_count, s_rgb_task, s_ch,
                   s_count, s_white_task, live, init_result, fail_dels, busy_gives,
                   passes_since_give>>
    /\ UNCHANGED <<last_call, engine_obs, notEngines>>

(***************************************************************************)
(* ul_white_engine.c                                                       *)
(***************************************************************************)
WhiteZeroCh == [enabled |-> FALSE, eff |-> "none", frame_idx |-> 0]

\* reset_channels_state
reset_channels_state == [i \in PwmIdx |-> WhiteZeroCh]

\* ch_init for an enabled channel
ch_init == [enabled |-> TRUE, eff |-> "solid", frame_idx |-> 0]

\* the outputs after ch_init has called setup_ledc_channel for the enabled channels
ConfiguredOutputs(out) == [i \in PwmIdx |-> IF i \in cfg THEN "pwm" ELSE out[i]]

outputs_left(out, enabled) == out

\* pull_channel_low on every channel; it acts on the enabled ones
pull_channels_low(out, enabled) == [i \in PwmIdx |-> IF enabled[i] THEN "low" ELSE out[i]]

ul_white_engine_start(task_ok) ==
    /\ family = "white"
    /\ starts < MaxStarts
    /\ phase' = "started"
    /\ starts' = starts + 1
    /\ IF s_white_task
          THEN UNCHANGED <<s_ch, s_count, s_white_task, live>>
          ELSE IF cfg # {} /\ ~task_ok
                  THEN /\ s_ch' = reset_channels_state
                       /\ s_count' = 0
                       /\ UNCHANGED <<s_white_task, live>>
                  ELSE /\ s_ch' = [i \in PwmIdx |-> IF i \in cfg THEN ch_init ELSE WhiteZeroCh]
                       /\ s_count' = Cardinality(cfg)
                       /\ s_white_task' = (cfg # {})
                       /\ live' = [live EXCEPT !.tasks = @ + (IF cfg # {} THEN 1 ELSE 0)]
    /\ first_frame' = NoFirstFrames
    /\ UNCHANGED <<family, cfg, ws_strips, s_refresh_sem, sem_count, s_refresh_task, s_ws_task,
                   refresh_pc, rgb_strips, s_strip_count, s_rgb_task, init_result, fail_dels,
                   busy_gives, passes_since_give>>
    /\ engine_obs' = IF s_white_task
                         THEN Observed(engine_obs.create, "start", "none", TRUE, 0, 0, engine_obs.out)
                      ELSE IF cfg = {}
                         THEN Observed(engine_obs.create, "start", "none", TRUE, 1, 0, engine_obs.out)
                      ELSE IF ~task_ok
                         THEN Observed(engine_obs.create, "start", "fail", FALSE, 0, 1,
                                       pull_channels_low(ConfiguredOutputs(engine_obs.out),
                                                         [i \in PwmIdx |-> i \in cfg]))
                      ELSE Observed(engine_obs.create, "start", "pass", TRUE, 1, 0,
                                    ConfiguredOutputs(engine_obs.out))
    /\ UNCHANGED <<last_call, notEngines>>

ul_white_engine_stop ==
    /\ family = "white"
    /\ phase' = "stopped"
    /\ s_white_task' = FALSE
    /\ s_ch' = reset_channels_state
    /\ s_count' = 0
    /\ live' = [live EXCEPT !.tasks = @ - (IF s_white_task THEN 1 ELSE 0)]
    /\ first_frame' = NoFirstFrames
    /\ UNCHANGED <<family, cfg, starts, ws_strips, s_refresh_sem, sem_count, s_refresh_task,
                   s_ws_task, refresh_pc, rgb_strips, s_strip_count, s_rgb_task, init_result,
                   fail_dels, busy_gives, passes_since_give>>
    /\ engine_obs' = Observed(engine_obs.create, "stop", "none", TRUE, 0, 0,
                             pull_channels_low(engine_obs.out,
                                               [i \in PwmIdx |-> s_ch[i].enabled]))
    /\ UNCHANGED <<last_call, notEngines>>

get_ch(ch) == ch \in PwmIdx /\ s_ch[ch].enabled

white_set_effect_ok(ch, name) == get_ch(ch) /\ find_effect(WhiteEffects, name) # "none"

ul_white_set_effect(ch, name) ==
    /\ family = "white"
    /\ LET e == find_effect(WhiteEffects, name)
       IN IF white_set_effect_ok(ch, name)
             THEN /\ s_ch' = [s_ch EXCEPT ![ch].eff = e, ![ch].frame_idx = 0]
                  /\ first_frame' = [first_frame EXCEPT ![ch] = -1]
             ELSE UNCHANGED <<s_ch, first_frame>>
    /\ UNCHANGED <<family, cfg, phase, starts, ws_strips, s_refresh_sem, sem_count,
                   s_refresh_task, s_ws_task, refresh_pc, rgb_strips, s_strip_count, s_rgb_task,
                   s_count, s_white_task, live, init_result, fail_dels, busy_gives,
                   passes_since_give>>
    /\ UNCHANGED <<engine_obs, notEngines>>

WhiteRendered(i) == s_ch[i].enabled /\ s_ch[i].eff # "none"

\* one iteration of white_task's loop: render(s_ch[i].frame_idx++)
white_task ==
    /\ family = "white"
    /\ s_white_task
    /\ \E i \in PwmIdx : WhiteRendered(i)
    /\ \A i \in PwmIdx : WhiteRendered(i) => s_ch[i].frame_idx < MaxFrame
    /\ s_ch' = [i \in PwmIdx |->
                  IF WhiteRendered(i) THEN [s_ch[i] EXCEPT !.frame_idx = @ + 1] ELSE s_ch[i]]
    /\ first_frame' = [i \in PwmIdx |->
                         IF WhiteRendered(i) /\ first_frame[i] = -1
                            THEN s_ch[i].frame_idx
                            ELSE first_frame[i]]
    /\ UNCHANGED <<family, cfg, phase, starts, ws_strips, s_refresh_sem, sem_count,
                   s_refresh_task, s_ws_task, refresh_pc, rgb_strips, s_strip_count, s_rgb_task,
                   s_count, s_white_task, live, init_result, fail_dels, busy_gives,
                   passes_since_give>>
    /\ UNCHANGED <<last_call, engine_obs, notEngines>>

\* service_manager_task starts the engines only when they are not running
s_services_running == phase = "started"

(***************************************************************************)
(* The engines under a caller that starts and stops them, requests that    *)
(* set effects (from the MQTT task), and the engines' own tasks.           *)
(***************************************************************************)
WsEngine ==
    \/ \E connected \in BOOLEAN, o0 \in InitOutcomes, o1 \in InitOutcomes,
          sem_ok \in BOOLEAN, refresh_ok \in BOOLEAN, ws_ok \in BOOLEAN :
          ~s_services_running /\ ul_ws_engine_start(connected, o0, o1, sem_ok, refresh_ok, ws_ok)
    \/ ul_ws_engine_stop
    \/ \E strip \in WsIdx, name \in RequestedNames :
          ul_ws_set_effect(strip, name) /\ UNCHANGED last_call
    \/ ws_task
    \/ led_refresh_task_take
    \/ led_refresh_task_done

RgbEngine ==
    \/ \E task_ok \in BOOLEAN : ~s_services_running /\ ul_rgb_engine_start(task_ok)
    \/ ul_rgb_engine_stop
    \/ \E strip \in PwmIdx, name \in RequestedNames :
          ul_rgb_set_effect(strip, name) /\ UNCHANGED last_call
    \/ rgb_task

WhiteEngine ==
    \/ \E task_ok \in BOOLEAN : ~s_services_running /\ ul_white_engine_start(task_ok)
    \/ ul_white_engine_stop
    \/ \E ch \in PwmIdx, name \in RequestedNames :
          ul_white_set_effect(ch, name) /\ UNCHANGED last_call
    \/ white_task

NextEngines ==
    \/ WsEngine
    \/ RgbEngine
    \/ WhiteEngine

(***************************************************************************)
(* The engines' request interface observed by a caller: set_effect and     *)
(* get_status with any channel argument, in range or not, recorded with    *)
(* their results in last_call.                                             *)
(***************************************************************************)
WsArgs == -1..2
PwmArgs == -1..4
ApiChannels == {0, 1}     \* channels that may be enabled in these behaviours

\* what get_status leaves in *out when it fails
status_untouched == "untouched"

memset_out == "zero"

SetEffectResult(ch, name, ok) ==
    [fn |-> "set_effect", ch |-> ch, name |-> name, ret |-> ok,
     init |-> IF ok THEN name ELSE "none", out |-> "untouched"]

GetStatusResult(ch, found, effect) ==
    [fn |-> "get_status", ch |-> ch, name |-> "none", ret |-> found, init |-> "none",
     out |-> IF found THEN effect ELSE memset_out]

engineState == <<family, cfg, phase, starts, ws_strips, s_refresh_sem, sem_count, s_refresh_task,
                 s_ws_task, refresh_pc, rgb_strips, s_strip_count, s_rgb_task, s_ch, s_count,
                 s_white_task, live, init_result, fail_dels, first_frame, busy_gives,
                 passes_since_give, engine_obs>>

ul_ws_get_status(idx) ==
    /\ family = "ws"
    /\ last_call' = GetStatusResult(idx, get_strip(idx),
                                    IF get_strip(idx) THEN ws_strips[idx].eff ELSE "none")
    /\ UNCHANGED <<engineState, notEngines>>

ul_rgb_get_status(strip) ==
    /\ family = "rgb"
    /\ last_call' = GetStatusResult(strip, rgb_get_strip(strip),
                                    IF rgb_get_strip(strip) THEN rgb_strips[strip].eff ELSE "none")
    /\ UNCHANGED <<engineState, notEngines>>

ul_white_get_status(ch) ==
    /\ family = "white"
    /\ last_call' = GetStatusResult(ch, get_ch(ch),
                                    IF get_ch(ch) THEN s_ch[ch].eff ELSE "none")
    /\ UNCHANGED <<engineState, notEngines>>

SetEffectCall ==
    \/ \E strip \in WsArgs, name \in RequestedNames :
          /\ ul_ws_set_effect(strip, name)
          /\ last_call' = SetEffectResult(strip, name, ws_set_effect_ok(strip, name))
    \/ \E strip \in PwmArgs, name \in RequestedNames :
          /\ ul_rgb_set_effect(strip, name)
          /\ last_call' = SetEffectResult(strip, name, rgb_set_effect_ok(strip, name))
    \/ \E ch \in PwmArgs, name \in RequestedNames :
          /\ ul_white_set_effect(ch, name)
          /\ last_call' = SetEffectResult(ch, name, white_set_effect_ok(ch, name))

GetStatusCall ==
    \/ \E idx \in WsArgs : ul_ws_get_status(idx)
    \/ \E strip \in PwmArgs : ul_rgb_get_status(strip)
    \/ \E ch \in PwmArgs : ul_white_get_status(ch)

NextApi ==
    \/ \E connected \in BOOLEAN, o0 \in InitOutcomes, o1 \in InitOutcomes,
          sem_ok \in BOOLEAN, refresh_ok \in BOOLEAN, ws_ok \in BOOLEAN :
          ~s_services_running /\ ul_ws_engine_start(connected, o0, o1, sem_ok, refresh_ok, ws_ok)
    \/ ul_ws_engine_stop
    \/ ws_task
    \/ \E task_ok \in BOOLEAN : ~s_services_running /\ ul_rgb_engine_start(task_ok)
    \/ ul_rgb_engine_stop
    \/ rgb_task
    \/ \E task_ok \in BOOLEAN : ~s_services_running /\ ul_white_engine_start(task_ok)
    \/ ul_white_engine_stop
    \/ white_task
    \/ SetEffectCall
    \/ GetStatusCall

(***************************************************************************)
(* The engines under any sequence of start and stop calls, a start while   *)
(* the engine is running included.                                         *)
(***************************************************************************)
NextCalls ==
    \/ \E connected \in BOOLEAN, o0 \in InitOutcomes, o1 \in InitOutcomes,
          sem_ok \in BOOLEAN, refresh_ok \in BOOLEAN, ws_ok \in BOOLEAN :
          ul_ws_engine_start(connected, o0, o1, sem_ok, refresh_ok, ws_ok)
    \/ ul_ws_engine_stop
    \/ ws_task
    \/ led_refresh_task_take
    \/ led_refresh_task_done
    \/ \E task_ok \in BOOLEAN : ul_rgb_engine_start(task_ok)
    \/ ul_rgb_engine_stop
    \/ rgb_task
    \/ \E task_ok \in BOOLEAN : ul_white_engine_start(task_ok)
    \/ ul_white_engine_stop
    \/ white_task

(***************************************************************************)
(* ul_state.c: the last command payload of each channel, written to        *)
(* storage by the flush task after the channel's one-shot timer has run    *)
(* out.  Time is counted in seconds; a payload is a sequence of non-zero   *)
(* bytes and is stored with its terminating null byte.  The entry table    *)
(* holds the WS entries; the entries of the other targets are set up and   *)
(* addressed by the same code at other offsets.                            *)
(***************************************************************************)
UL_STATE_FLUSH_DELAY_S == 3     \* UL_STATE_FLUSH_DELAY_US, in seconds
UL_STATE_WS_MAX_STRIPS == 2
UL_STATE_MAX_PAYLOAD == 3       \* UL_STATE_MAX_JSON_LEN: bytes of a payload with its null byte
MaxBurst == 2                   \* payload changes counted in a burst
StateQueueLen == 1              \* xQueueCreate(8, ...): messages the queue holds

StateEntries == 0 .. UL_STATE_WS_MAX_STRIPS - 1
total_entries == Cardinality(StateEntries)
StateStrips == 0 .. UL_STATE_WS_MAX_STRIPS     \* the strips and an index out of range
StatePayloads == {<<1>>, <<2, 1>>, <<1, 2, 1>>}
NoPayload == <<>>

FreshEntry == [timer |-> "none", left |-> 0, payload |-> NoPayload, dirty |-> FALSE]
Watched == 0                    \* the entry whose record calls and writes are timed
FreshAge == [call |-> UL_STATE_FLUSH_DELAY_S, change |-> UL_STATE_FLUSH_DELAY_S, burst |-> 0,
             writes |-> 0]
StateCall(fn, strip, ret, buf) == [fn |-> fn, strip |-> strip, ret |-> ret, buf |-> buf]

InitState ==
    /\ s_ready = FALSE
    /\ s_entry_count = 0
    /\ s_entries = [e \in StateEntries |-> FreshEntry]
    /\ s_queue = [handle |-> FALSE, msgs |-> <<>>]
    /\ s_nvs = FALSE
    /\ s_task = FALSE
    /\ nvs_blob = [e \in StateEntries |-> NoPayload]
    /\ state_live = [timers |-> 0, queues |-> 0, handles |-> 0, tasks |-> 0]
    /\ state_age = FreshAge
    /\ state_rec = [e \in StateEntries |-> NoPayload]
    /\ state_obs = StateCall("none", -1, "none", <<>>)

\* esp_timer_stop followed by esp_timer_start_once, lines 312-321
esp_timer_start_once(entry) == [entry EXCEPT !.timer = "armed", !.left = UL_STATE_FLUSH_DELAY_S]

schedule_unless_armed(entries, e) ==
    IF ~s_ready \/ e >= s_entry_count \/ entries[e].timer # "idle"
       THEN entries
       ELSE [entries EXCEPT ![e] = esp_timer_start_once(@)]

\* schedule_flush, lines 304-322
schedule_flush(entries, e) ==
    IF ~s_ready \/ e >= s_entry_count \/ entries[e].timer = "none"
       THEN entries
       ELSE [entries EXCEPT ![e] = esp_timer_start_once(@)]

\* cleanup_entry, lines 133-157
entry_kept(entry) == entry
cleanup_entry(entry) == [entry EXCEPT !.timer = "none", !.left = 0, !.payload = NoPayload,
                                      !.dirty = FALSE]

\* cleanup_resources, lines 159-177: what it leaves of the table, and the
\* timers it deletes
cleanup_resources(entries, active) ==
    [e \in StateEntries |-> IF e < Min(active, total_entries) THEN cleanup_entry(entries[e])
                                                              ELSE entries[e]]
timers_deleted(entries, active) ==
    Cardinality({e \in StateEntries : /\ e < Min(active, total_entries)
                                      /\ entries[e].timer # "none"
                                      /\ cleanup_entry(entries[e]).timer = "none"})

\* init_entry, lines 179-203, for the entries before `upto`, each with its
\* timer created; the entry at `upto` is reset and has no timer
init_entries(entries, upto) ==
    [e \in StateEntries |-> IF e < upto THEN [FreshEntry EXCEPT !.timer = "idle"]
                            ELSE IF e = upto THEN FreshEntry ELSE entries[e]]

\* ul_state_init, lines 205-302.  `stage` is the call that fails: nvs_open,
\* xQueueCreate, the esp_timer_create of entry fail_at, ul_task_create, or
\* none ("done").
InitStages == {"open", "queue", "timer", "task", "done"}
FailAt(stage) == IF stage = "timer" THEN StateEntries ELSE {total_entries}

ul_state_init(stage, fail_at) ==
    /\ LET made == IF stage = "timer" THEN fail_at ELSE total_entries
           built == init_entries(s_entries, made)
           cleaned == cleanup_resources(built, made)
       IN  IF s_ready
              THEN /\ state_obs' = StateCall("init", -1, "ESP_OK", <<>>)
                   /\ UNCHANGED <<s_ready, s_entry_count, s_entries, s_queue, s_nvs, s_task,
                                  nvs_blob, state_live, state_age, state_rec>>
              ELSE /\ s_ready' = (stage = "done")
                   /\ s_entry_count' = IF stage = "done" THEN total_entries ELSE 0
                   /\ s_entries' = CASE stage \in {"open", "queue"} -> s_entries
                                     [] stage \in {"timer", "task"} -> cleaned
                                     [] OTHER -> built
                   /\ s_queue' = [handle |-> stage = "done", msgs |-> <<>>]
                   /\ s_nvs' = (stage = "done")
                   /\ s_task' = (stage = "done")
                   /\ state_live' =
                         CASE stage = "open" -> state_live
                           [] stage = "queue" -> state_live
                           [] stage \in {"timer", "task"} ->
                                 [state_live EXCEPT
                                     !.timers = @ + made - timers_deleted(built, made)]
                           [] OTHER -> [timers |-> state_live.timers + made,
                                        queues |-> state_live.queues + 1,
                                        handles |-> state_live.handles + 1,
                                        tasks |-> state_live.tasks + 1]
                   /\ state_obs' = StateCall("init", made,
                                             CASE stage = "open" -> "ESP_ERR_NVS"
                                               [] stage = "queue" -> "ESP_ERR_NO_MEM"
                                               [] stage = "timer" -> "ESP_ERR_TIMER"
                                               [] stage = "task" -> "ESP_ERR_NO_MEM"
                                               [] OTHER -> "ESP_OK", <<>>)
                   /\ UNCHANGED <<nvs_blob, state_age, state_rec>>
    /\ UNCHANGED notState

\* update_entry, lines 324-361: "dropped" when it returns before the
\* comparison, "same" when the payload is the one already held
update_entry(e, payload, mem_ok) ==
    LET copy == Append(payload, 0)
        verdict == IF \/ ~s_ready
                      \/ e >= s_entry_count
                      \/ Len(payload) + 1 > UL_STATE_MAX_PAYLOAD
                      \/ ~mem_ok
                      THEN "dropped"
                   ELSE IF s_entries[e].payload = copy THEN "same" ELSE "stored"
    IN  /\ s_entries' = IF verdict = "stored"
                           THEN schedule_flush([s_entries EXCEPT ![e].payload = copy,
                                                                 ![e].dirty = TRUE], e)
                           ELSE s_entries
        /\ state_age' = IF e # Watched THEN state_age
                         ELSE [state_age EXCEPT
                                  !.call = 0,
                                  !.change = IF verdict = "stored" THEN 0 ELSE @,
                                  !.burst = IF verdict # "stored" THEN @
                                            ELSE IF state_age.change < UL_STATE_FLUSH_DELAY_S
                                                    THEN Min(@ + 1, MaxBurst)
                                            ELSE 1,
                                  !.writes = IF verdict = "stored" THEN 0 ELSE @]
        /\ state_rec' = IF verdict = "dropped" THEN state_rec
                         ELSE [state_rec EXCEPT ![e] = payload]
        /\ state_obs' = StateCall("record", -1, "none", <<>>)

\* ul_state_record_ws, lines 391-395
ul_state_record_ws(strip, payload, mem_ok) ==
    /\ IF strip < 0 \/ strip >= UL_STATE_WS_MAX_STRIPS
          THEN /\ state_obs' = StateCall("record", -1, "none", <<>>)
               /\ UNCHANGED <<s_entries, state_age, state_rec>>
          ELSE update_entry(strip, payload, mem_ok)
    /\ UNCHANGED <<s_ready, s_entry_count, s_queue, s_nvs, s_task, nvs_blob, state_live>>
    /\ UNCHANGED notState

\* One second passes.  A timer that has run out calls flush_timer_cb, and the
\* flush task handles a queued message, before the next second begins.
StateTick ==
    /\ s_queue.msgs = <<>>
    /\ \A e \in StateEntries : s_entries[e].timer = "armed" => s_entries[e].left > 0
    /\ s_entries' = [e \in StateEntries |->
                        IF s_entries[e].timer = "armed"
                           THEN [s_entries[e] EXCEPT !.left = @ - 1]
                           ELSE s_entries[e]]
    /\ state_age' = [state_age EXCEPT !.call = Min(@ + 1, UL_STATE_FLUSH_DELAY_S),
                                      !.change = Min(@ + 1, UL_STATE_FLUSH_DELAY_S)]
    /\ UNCHANGED <<s_ready, s_entry_count, s_queue, s_nvs, s_task, nvs_blob, state_live,
                   state_rec, state_obs>>
    /\ UNCHANGED notState

\* flush_timer_cb, lines 112-131, called when the one-shot timer of entry e
\* has run out
flush_timer_cb(e) ==
    /\ s_entries[e].timer = "armed"
    /\ s_entries[e].left = 0
    /\ LET fired == [s_entries EXCEPT ![e].timer = "idle"]
           dirty == e < s_entry_count /\ s_entries[e].dirty
           verdict == IF ~dirty \/ ~s_queue.handle THEN "none"
                      ELSE IF Len(s_queue.msgs) < StateQueueLen THEN "queued" ELSE "full"
       IN  /\ s_queue' = IF verdict = "queued"
                            THEN [s_queue EXCEPT !.msgs = Append(@, e)]
                            ELSE s_queue
           /\ s_entries' = IF verdict = "full" THEN schedule_flush(fired, e) ELSE fired
           /\ state_obs' = StateCall("timer_cb", e, verdict, <<>>)
    /\ UNCHANGED <<s_ready, s_entry_count, s_nvs, s_task, nvs_blob, state_live, state_age,
                   state_rec>>
    /\ UNCHANGED notState

\* ul_state_task, lines 66-110: one message received and handled
ul_state_task(nvs_ok, mem_ok) ==
    /\ s_task
    /\ s_queue.handle
    /\ s_queue.msgs # <<>>
    /\ LET e == Head(s_queue.msgs)
           entry == s_entries[e]
           copied == /\ e < s_entry_count
                     /\ entry.dirty
                     /\ entry.payload # NoPayload
                     /\ mem_ok
           verdict == IF e >= s_entry_count THEN "skipped"
                      ELSE IF ~copied THEN "nothing"
                      ELSE IF nvs_ok THEN "persisted" ELSE "failed"
       IN  /\ s_queue' = [s_queue EXCEPT !.msgs = Tail(@)]
           /\ s_entries' = CASE verdict = "skipped" -> s_entries
                             [] verdict = "nothing" -> schedule_flush(s_entries, e)
                             [] verdict = "persisted" -> [s_entries EXCEPT ![e].dirty = FALSE]
                             [] OTHER -> schedule_flush(s_entries, e)
           /\ nvs_blob' = IF verdict = "persisted" THEN [nvs_blob EXCEPT ![e] = entry.payload]
                                                   ELSE nvs_blob
           /\ state_age' = IF verdict = "persisted" /\ e = Watched
                              THEN [state_age EXCEPT !.writes = Min(@ + 1, 2)]
                              ELSE state_age
           /\ state_obs' = StateCall("task", e, verdict, <<>>)
    /\ UNCHANGED <<s_ready, s_entry_count, s_nvs, s_task, state_live, state_rec>>
    /\ UNCHANGED notState

\* copy_entry, lines 363-389, on a buffer of buffer_len bytes: the return
\* value and what the buffer holds
memcpy(buffer, payload) ==
    [i \in 1 .. Len(buffer) |-> IF i <= Len(payload) THEN payload[i] ELSE buffer[i]]
clear_buffer(buffer) == [i \in 1 .. Len(buffer) |-> IF i = 1 THEN 0 ELSE buffer[i]]

copy_without_null(e, buffer) ==
    IF Len(buffer) = 0 THEN [ret |-> FALSE, buf |-> buffer]
    ELSE IF ~s_ready \/ e >= s_entry_count THEN [ret |-> FALSE, buf |-> clear_buffer(buffer)]
    ELSE IF /\ s_entries[e].payload # NoPayload
            /\ Len(s_entries[e].payload) - 1 <= Len(buffer)
            THEN [ret |-> TRUE,
                  buf |-> memcpy(clear_buffer(buffer),
                                 SubSeq(s_entries[e].payload, 1, Min(Len(s_entries[e].payload),
                                                                     Len(buffer))))]
    ELSE [ret |-> FALSE, buf |-> clear_buffer(buffer)]

copy_entry(e, buffer) ==
    IF Len(buffer) = 0 THEN [ret |-> FALSE, buf |-> buffer]
    ELSE IF ~s_ready \/ e >= s_entry_count THEN [ret |-> FALSE, buf |-> clear_buffer(buffer)]
    ELSE IF /\ s_entries[e].payload # NoPayload
            /\ Len(s_entries[e].payload) <= Len(buffer)
            THEN [ret |-> TRUE, buf |-> memcpy(clear_buffer(buffer), s_entries[e].payload)]
    ELSE [ret |-> FALSE, buf |-> clear_buffer(buffer)]

\* ul_state_copy_ws, lines 423-430
ul_state_copy_ws(strip, buffer_len) ==
    /\ LET buffer == [i \in 1 .. buffer_len |-> 9]    \* bytes left from an earlier use
           r == IF strip < 0 \/ strip >= UL_STATE_WS_MAX_STRIPS
                   THEN [ret |-> FALSE, buf |-> clear_buffer(buffer)]
                   ELSE copy_entry(strip, buffer)
       IN  state_obs' = StateCall("copy", strip, r.ret, r.buf)
    /\ UNCHANGED <<s_ready, s_entry_count, s_entries, s_queue, s_nvs, s_task, nvs_blob,
                   state_live, state_age, state_rec>>
    /\ UNCHANGED notState

NextState ==
    \/ \E stage \in InitStages : \E fail_at \in FailAt(stage) : ul_state_init(stage, fail_at)
    \/ \E strip \in StateStrips : \E payload \in StatePayloads : \E mem_ok \in BOOLEAN :
          ul_state_record_ws(strip, payload, mem_ok)
    \/ StateTick
    \/ \E e \in StateEntries : flush_timer_cb(e)
    \/ \E nvs_ok, mem_ok \in BOOLEAN : ul_state_task(nvs_ok, mem_ok)

NextCopy ==
    \/ \E stage \in InitStages : \E fail_at \in FailAt(stage) : ul_state_init(stage, fail_at)
    \/ \E strip \in StateStrips : \E payload \in StatePayloads : \E mem_ok \in BOOLEAN :
          ul_state_record_ws(strip, payload, mem_ok)
    \/ \E strip \in StateStrips : \E buffer_len \in 0 .. UL_STATE_MAX_PAYLOAD + 1 :
          ul_state_copy_ws(strip, buffer_len)

(***************************************************************************)
(* ul_mqtt.c: starting and stopping the MQTT client, and the one-shot      *)
(* retry timer that calls ul_mqtt_start again after a failed start.        *)
(***************************************************************************)
UL_MQTT_MAX_CONSECUTIVE_START_FAILURES == 3  \* named by test_ul_mqtt_retry.c only; the
                                             \* sources give it no value

MaxClients == 3                              \* clients created in a behaviour

StartFailures == {"none", "init", "register", "start"}

\* the record of a call: the function, how the start it made ended, the
\* result of the esp_timer_create it made ("none" without one), the states
\* reported to the health monitor, and whether it marked a restart
ClientCall(fn, outcome, create, notified, restart) ==
    [fn |-> fn, outcome |-> outcome, create |-> create, notified |-> notified,
     restart |-> restart]

InitClient ==
    /\ s_client = FALSE
    /\ s_retry_timer = "none"
    /\ s_retry_pending = FALSE
    /\ mqtt_ready = FALSE
    /\ mqtt_live = [created |-> 0, destroyed |-> 0]
    /\ start_failures = 0
    /\ mqtt_obs = ClientCall("none", "none", "none", <<>>, FALSE)

\* the client handle, if there is one, stopped and destroyed (lines 1296-1300)
client_left(client, clients) == clients
esp_mqtt_client_destroy(client, clients) ==
    IF client THEN [clients EXCEPT !.destroyed = @ + 1] ELSE clients

ClientsLive == mqtt_live.created - mqtt_live.destroyed

\* cancel_mqtt_retry, lines 1104-1112: the timer and the pending flag after it
cancel_mqtt_retry(timer, pending) ==
    IF timer = "none" THEN [timer |-> timer, pending |-> pending]
    ELSE [timer |-> "idle", pending |-> FALSE]

\* schedule_mqtt_retry, lines 1125-1151; timer_ok is the result of the
\* esp_timer_create it calls when there is no timer yet
retry_left_out(timer, pending, timer_ok) == [timer |-> timer, pending |-> pending]

schedule_mqtt_retry(timer, pending, timer_ok) ==
    IF timer = "none" /\ ~timer_ok THEN [timer |-> timer, pending |-> pending]
    ELSE [timer |-> "armed", pending |-> TRUE]

\* ul_mqtt_start, lines 1153-1286, entered with the client handle, the retry
\* timer and the pending flag as given, after the reports in `notified`.
\* `failure` is the first of esp_mqtt_client_init,
\* esp_mqtt_client_register_event and esp_mqtt_client_start that fails.  The
\* function keeps no count of failed starts and marks no restart.
mqtt_start(fn, client, timer, pending, clients, notified, connected, failure, timer_ok) ==
    LET cancelled == cancel_mqtt_retry(timer, pending)
        retry == schedule_mqtt_retry(cancelled.timer, cancelled.pending, timer_ok)
        outcome == IF client THEN "running"
                   ELSE IF ~connected THEN "offline"
                   ELSE failure
        after == CASE outcome \in {"running", "offline"} -> [timer |-> timer, pending |-> pending]
                   [] outcome = "none" -> cancelled
                   [] OTHER -> retry
    IN  /\ s_client' = (client \/ outcome = "none")
        /\ s_retry_timer' = after.timer
        /\ s_retry_pending' = after.pending
        /\ mqtt_live' = CASE outcome = "none" -> [clients EXCEPT !.created = @ + 1]
                          [] outcome \in {"register", "start"} ->
                                [created |-> clients.created + 1,
                                 destroyed |-> clients.destroyed + 1]
                          [] OTHER -> clients
        /\ start_failures' = CASE outcome \in {"init", "register", "start"} ->
                                     Min(start_failures + 1,
                                         UL_MQTT_MAX_CONSECUTIVE_START_FAILURES)
                               [] outcome = "none" -> 0
                               [] OTHER -> start_failures
        /\ mqtt_obs' = ClientCall(fn, outcome,
                                  IF outcome \notin {"init", "register", "start"}
                                        \/ cancelled.timer # "none" THEN "none"
                                  ELSE IF timer_ok THEN "ok" ELSE "failed",
                                  IF outcome = "running" THEN notified
                                                         ELSE Append(notified, FALSE),
                                  FALSE)

ul_mqtt_start(connected, failure, timer_ok) ==
    /\ mqtt_live.created < MaxClients
    /\ mqtt_start("start", s_client, s_retry_timer, s_retry_pending, mqtt_live, <<>>,
                  connected, failure, timer_ok)
    /\ UNCHANGED <<mqtt_ready, notClient>>

\* mqtt_retry_timer_cb, lines 1118-1123, called when the one-shot timer has
\* run out
mqtt_retry_timer_cb(connected, failure, timer_ok) ==
    /\ s_retry_timer = "armed"
    /\ mqtt_live.created < MaxClients
    /\ mqtt_start("retry", s_client, "idle", FALSE, mqtt_live, <<>>,
                  connected, failure, timer_ok)
    /\ UNCHANGED <<mqtt_ready, notClient>>

\* ul_mqtt_stop, lines 1288-1303
ul_mqtt_stop ==
    /\ s_client' = FALSE
    /\ s_retry_timer' = cancel_mqtt_retry(s_retry_timer, s_retry_pending).timer
    /\ s_retry_pending' = cancel_mqtt_retry(s_retry_timer, s_retry_pending).pending
    /\ mqtt_live' = esp_mqtt_client_destroy(s_client, mqtt_live)
    /\ mqtt_ready' = FALSE
    /\ UNCHANGED start_failures
    /\ mqtt_obs' = ClientCall("stop", "none", "none", <<FALSE>>, FALSE)
    /\ UNCHANGED notClient

\* ul_mqtt_restart, lines 1305-1317: ul_mqtt_stop, then ul_mqtt_start when
\* the network is up
ul_mqtt_restart(online, connected, failure, timer_ok) ==
    /\ mqtt_live.created < MaxClients
    /\ LET cancelled == cancel_mqtt_retry(s_retry_timer, s_retry_pending)
           stopped == esp_mqtt_client_destroy(s_client, mqtt_live)
       IN  IF ~online
              THEN /\ s_client' = FALSE
                   /\ s_retry_timer' = cancelled.timer
                   /\ s_retry_pending' = cancelled.pending
                   /\ mqtt_live' = stopped
                   /\ UNCHANGED start_failures
                   /\ mqtt_obs' = ClientCall("restart", "offline", "none", <<FALSE>>, FALSE)
              ELSE mqtt_start("restart", FALSE, cancelled.timer, cancelled.pending, stopped,
                              <<FALSE>>, connected, failure, timer_ok)
    /\ mqtt_ready' = FALSE
    /\ UNCHANGED notClient

\* mqtt_event_handler, lines 1021-1075, for the events of a client that has
\* been started
MqttEvents == {"MQTT_EVENT_CONNECTED", "MQTT_EVENT_DISCONNECTED"}

mqtt_event_handler(ev) ==
    /\ s_client
    /\ mqtt_ready' = (ev = "MQTT_EVENT_CONNECTED")
    /\ mqtt_obs' = ClientCall(ev, "none", "none", <<ev = "MQTT_EVENT_CONNECTED">>, FALSE)
    /\ UNCHANGED <<s_client, s_retry_timer, s_retry_pending, mqtt_live, start_failures>>
    /\ UNCHANGED notClient

NextClient ==
    \/ \E connected, timer_ok \in BOOLEAN : \E failure \in StartFailures :
          ul_mqtt_start(connected, failure, timer_ok)
    \/ \E connected, timer_ok \in BOOLEAN : \E failure \in StartFailures :
          mqtt_retry_timer_cb(connected, failure, timer_ok)
    \/ ul_mqtt_stop
    \/ \E online, connected, timer_ok \in BOOLEAN : \E failure \in StartFailures :
          ul_mqtt_restart(online, connected, failure, timer_ok)
    \/ \E ev \in MqttEvents : mqtt_event_handler(ev)

(***************************************************************************)
(* ul_mqtt.c: the ws/set command.  A command is the strip index (from the  *)
(* payload or the topic), the "brightness" and "effect" fields it carries  *)
(* or not, and the text of the payload.                                    *)
(***************************************************************************)
CmdBrightness == {[given |-> FALSE, v |-> 0], [given |-> TRUE, v |-> 7]}
CmdEffects == {"absent", "color_swell", "swell"}     \* "swell" is no WS effect
CmdPayloads == {<<1>>, <<2, 1>>}

CmdCall(fn, strip, bri, effect, ack, applied, record) ==
    [fn |-> fn, strip |-> strip, bri |-> bri, effect |-> effect, ack |-> ack,
     applied |-> applied, record |-> record]

InitCmd ==
    cmd_obs = CmdCall("none", 0, [given |-> FALSE, v |-> 0], "absent", "none", FALSE, FALSE)

clamp_brightness(bri) == IF bri < 0 THEN 0 ELSE IF bri > 255 THEN 255 ELSE bri

\* ul_ws_apply_json, ul_ws_engine.c lines 131-165: the strips after the call
ul_ws_apply_json(strips, strip, bri, effect) ==
    LET lit == IF bri.given /\ get_strip(strip)
                  THEN [strips EXCEPT ![strip].brightness = clamp_brightness(bri.v)]
                  ELSE strips
    IN  IF effect # "absent" /\ ws_set_effect_ok(strip, effect)
           THEN [lit EXCEPT ![strip].eff = find_effect(WsEffects, effect),
                            ![strip].frame_pos = 0]
           ELSE lit

\* handle_cmd_ws_set, lines 814-841: the ok passed to publish_ws_ack, given
\* the strips after ul_ws_apply_json
handle_cmd_ws_set_ok(strips, strip, effect) ==
    effect # "absent" /\ get_strip(strip) /\ strips[strip].eff = effect

\* on_message, lines 915-1019, for a ws/set command
on_message(strip, bri, effect, payload, mem_ok) ==
    /\ family = "ws"
    /\ LET strips == ul_ws_apply_json(ws_strips, strip, bri, effect)
           ok == handle_cmd_ws_set_ok(strips, strip, effect)
           applied == (effect = "absent" \/ ok)
           record == applied /\ Len(payload) > 0
                             /\ ~(strip < 0 \/ strip >= UL_STATE_WS_MAX_STRIPS)
       IN  /\ ws_strips' = strips
           /\ first_frame' = IF effect # "absent" /\ ws_set_effect_ok(strip, effect)
                                THEN [first_frame EXCEPT ![strip] = -1]
                                ELSE first_frame
           /\ IF record THEN update_entry(strip, payload, mem_ok)
                        ELSE UNCHANGED <<s_entries, state_age, state_rec, state_obs>>
           /\ cmd_obs' = CmdCall("ws/set", strip, bri, effect,
                                 IF ok THEN "ok" ELSE "error", applied, record)
    /\ UNCHANGED <<family, cfg, phase, starts, s_refresh_sem, sem_count, s_refresh_task,
                   s_ws_task, refresh_pc, rgb_strips, s_strip_count, s_rgb_task, s_ch, s_count,
                   s_white_task, live, init_result, fail_dels, busy_gives, passes_since_give,
                   last_call, engine_obs>>
    /\ UNCHANGED <<s_ready, s_entry_count, s_queue, s_nvs, s_task, nvs_blob, state_live>>
    /\ UNCHANGED <<coreVars, healthVars, restartVars, core_obs, clientVars, fxVars, moreVars>>

NextCmd ==
    \/ \E connected \in BOOLEAN, o0 \in InitOutcomes, o1 \in InitOutcomes :
          ~s_services_running /\ ul_ws_engine_start(connected, o0, o1, TRUE, TRUE, TRUE)
    \/ \E fail_at \in FailAt("done") : ul_state_init("done", fail_at)
    \/ \E strip \in WsArgs, bri \in CmdBrightness, effect \in CmdEffects,
          payload \in CmdPayloads :
          on_message(strip, bri, effect, payload, TRUE)

(***************************************************************************)
(* Rendering: gamma correction and brightness.  A natural number too large *)
(* for machine integers is a sequence of limbs, base 1000, least           *)
(* significant first.                                                      *)
(***************************************************************************)
RECURSIVE MulSmall(_, _, _)
\* n * k + carry, for k below 1000
MulSmall(n, k, carry) ==
    IF n = <<>>
       THEN IF carry = 0 THEN <<>> ELSE <<carry % 1000>> \o MulSmall(<<>>, k, carry \div 1000)
       ELSE LET v == Head(n) * k + carry
            IN  <<v % 1000>> \o MulSmall(Tail(n), k, v \div 1000)

RECURSIVE TimesPower(_, _, _)
\* n * k^e
TimesPower(n, k, e) == IF e = 0 THEN n ELSE TimesPower(MulSmall(n, k, 0), k, e - 1)

RECURSIVE Trim(_)
Trim(n) == IF n # <<>> /\ n[Len(n)] = 0 THEN Trim(SubSeq(n, 1, Len(n) - 1)) ELSE n

RECURSIVE LessFrom(_, _, _)
LessFrom(x, y, i) ==
    IF i = 0 THEN FALSE
    ELSE IF x[i] # y[i] THEN x[i] < y[i]
    ELSE LessFrom(x, y, i - 1)

Less(a, b) ==
    LET x == Trim(a)
        y == Trim(b)
    IN  IF Len(x) # Len(y) THEN Len(x) < Len(y) ELSE LessFrom(x, y, Len(x))

\* g = round(255 * (c/255)^2.2), halves rounded up: g - 1/2 <= 255 * (c/255)^(11/5)
\* < g + 1/2, which in whole numbers is
\* (2g - 1)^5 * 255^6 <= 32 * c^11 < (2g + 1)^5 * 255^6
RoundedGamma(c, g) ==
    LET mid == TimesPower(<<32>>, c, 11)
        lower == TimesPower(TimesPower(<<1>>, 2 * g - 1, 5), 255, 6)
        upper == TimesPower(TimesPower(<<1>>, 2 * g + 1, 5), 255, 6)
    IN  /\ g \in 0 .. 255
        /\ g = 0 \/ ~Less(mid, lower)
        /\ Less(mid, upper)

\* gamma.c, init_gamma_table: s_gamma_tbl[i] = (int)(powf(i / 255.0f, 2.2f) * 255.0f + 0.5f)
\* in single precision, for i = 0 .. 255
s_gamma_tbl ==
   <<
        0,   0,   0,   0,   0,   0,   0,   0,   0,   0,   0,   0,   0,   0,   0,   1,
        1,   1,   1,   1,   1,   1,   1,   1,   1,   2,   2,   2,   2,   2,   2,   2,
        3,   3,   3,   3,   3,   4,   4,   4,   4,   5,   5,   5,   5,   6,   6,   6,
        6,   7,   7,   7,   8,   8,   8,   9,   9,   9,  10,  10,  11,  11,  11,  12,
       12,  13,  13,  13,  14,  14,  15,  15,  16,  16,  17,  17,  18,  18,  19,  19,
       20,  20,  21,  22,  22,  23,  23,  24,  25,  25,  26,  26,  27,  28,  28,  29,
       30,  30,  31,  32,  33,  33,  34,  35,  35,  36,  37,  38,  39,  39,  40,  41,
       42,  43,  43,  44,  45,  46,  47,  48,  49,  49,  50,  51,  52,  53,  54,  55,
       56,  57,  58,  59,  60,  61,  62,  63,  64,  65,  66,  67,  68,  69,  70,  71,
       73,  74,  75,  76,  77,  78,  79,  81,  82,  83,  84,  85,  87,  88,  89,  90,
       91,  93,  94,  95,  97,  98,  99, 100, 102, 103, 105, 106, 107, 109, 110, 111,
      113, 114, 116, 117, 119, 120, 121, 123, 124, 126, 127, 129, 130, 132, 133, 135,
      137, 138, 140, 141, 143, 145, 146, 148, 149, 151, 153, 154, 156, 158, 159, 161,
      163, 165, 166, 168, 170, 172, 173, 175, 177, 179, 181, 182, 184, 186, 188, 190,
      192, 194, 196, 197, 199, 201, 203, 205, 207, 209, 211, 213, 215, 217, 219, 221,
      223, 225, 227, 229, 231, 234, 236, 238, 240, 242, 244, 246, 248, 251, 253, 255
   >>

\* a table without gamma correction
identity8(x) == x

ul_gamma8(x) == s_gamma_tbl[x + 1]

\* brightness applied with the quotient rounded to the nearest integer
scale_rounded(v, bri) == (v * bri + 127) \div 255

\* apply_brightness, ul_ws_engine.c lines 224-230, for one byte
apply_brightness(v, bri) == IF bri = 255 THEN v ELSE ((v * bri) \div 255) % 256

\* the byte rgb_task passes to set_channel_value, ul_rgb_engine.c line 181
rgb_channel_value(v, bri) == ((v * bri) \div 255) % 256

Bytes == 0 .. 255

FxCall(fn, v) == [fn |-> fn, v |-> v]

InitFx ==
    /\ fx_in = <<>>
    /\ fx_out = FxCall("none", 0)

\* render_one, ul_ws_engine.c lines 232-254, with CONFIG_UL_GAMMA_ENABLE: the
\* byte passed to led_strip_set_pixel for a byte c the effect has rendered
render_one ==
    /\ fx_out' = FxCall("render_one", apply_brightness(ul_gamma8(fx_in.c), fx_in.b))
    /\ UNCHANGED <<fx_in, notFx>>

\* one channel in one pass of rgb_task, ul_rgb_engine.c lines 170-183
rgb_task_channel ==
    /\ fx_out' = FxCall("rgb_task", rgb_channel_value(ul_gamma8(fx_in.c), fx_in.b))
    /\ UNCHANGED <<fx_in, notFx>>

NextGamma ==
    \/ render_one
    \/ rgb_task_channel

(***************************************************************************)
(* Effect parameters: a duration in milliseconds converted to frames.  The *)
(* rate is CONFIG_UL_WS2812_FPS, CONFIG_UL_RGB_SMOOTH_HZ or                *)
(* CONFIG_UL_WHITE_SMOOTH_HZ, any positive rate of the build.  int has 32  *)
(* bits; a product that does not fit is undefined and its result any of    *)
(* the values in UndefinedFrames.                                          *)
(***************************************************************************)
FrameRates == {30, 60, 200}
FrameMs == (-2 .. 60) \cup {999, 1000, 35791394, 35791395, 2147483647}

clamp_frames(frames) == IF frames < 1 THEN 1 ELSE frames

\* ms * hz does not fit a 32-bit int
ProductOverflows(ms, hz) == ms > 2147483647 \div hz

\* floor(ms * hz / 1000) and the remainder, computed without the product
WideQuotient(ms, hz) == (ms \div 1000) * hz + ((ms % 1000) * hz) \div 1000
WideRemainder(ms, hz) == ((ms % 1000) * hz) % 1000

UndefinedFrames(ms, hz) == {1, WideQuotient(ms, hz), 2147483}

\* the quotient rounded to the nearest integer before the clamp
frames_rounded(ms, hz) ==
    LET at_least_0 == IF ms < 0 THEN 0 ELSE ms
    IN  clamp_frames(WideQuotient(at_least_0, hz)
                        + IF WideRemainder(at_least_0, hz) >= 500 THEN 1 ELSE 0)

\* read_frames for a number item, effects_ws/color_swell.c lines 59-65 and
\* effects_rgb/color_swell.c lines 61-67; the same statements stand in
\* white_swell_apply_params, effects_white/swell.c lines 60-66.  Defined
\* where the product fits.
read_frames(ms, hz) ==
    LET at_least_0 == IF ms < 0 THEN 0 ELSE ms
    IN  clamp_frames((at_least_0 * hz) \div 1000)

FramesCall(fn, v, undefined) == [fn |-> fn, v |-> v, undefined |-> undefined]

frames_call(fn) ==
    /\ IF ProductOverflows(fx_in.ms, fx_in.hz)
          THEN \E v \in UndefinedFrames(fx_in.ms, fx_in.hz) :
                  fx_out' = FramesCall(fn, v, TRUE)
          ELSE fx_out' = FramesCall(fn, read_frames(fx_in.ms, fx_in.hz), FALSE)
    /\ UNCHANGED <<fx_in, notFx>>

ws_read_frames == frames_call("ws_read_frames")

rgb_read_frames == frames_call("rgb_read_frames")

white_swell_apply_params == frames_call("white_swell_apply_params")

NextFrames ==
    \/ ws_read_frames
    \/ rgb_read_frames
    \/ white_swell_apply_params

(***************************************************************************)
(* Effect parameters: colours.  A parameter list is a sequence of cJSON    *)
(* items; a number item has its valueint, a string item has valueint 0 and *)
(* the number strtoul reads from its text.                                 *)
(***************************************************************************)
MaxParams == 6
ParamItems == {[str |-> FALSE, valueint |-> -1, hex |-> 0],
               [str |-> FALSE, valueint |-> 7, hex |-> 0],
               [str |-> FALSE, valueint |-> 300, hex |-> 0],
               [str |-> TRUE, valueint |-> 0, hex |-> 66051]}      \* "#010203"
ParamLists == UNION {[1 .. n -> ParamItems] : n \in 0 .. MaxParams}

\* (uint8_t)value
to_uint8(value) == value % 256

\* clamp_u8, effects_ws/color_swell.c
clamp_u8(value) == IF value < 0 THEN 0 ELSE IF value > 255 THEN 255 ELSE value

NoColour == <<0, 0, 0>>

\* flash_apply_params, effects_ws/flash.c lines 10-17: s_color1[strip] and
\* s_color2[strip] after the call, for a strip in range
flash_apply_params(colours, params) ==
    IF Len(params) < 6 THEN colours
    ELSE [i \in 1 .. 6 |-> to_uint8(params[i].valueint)]

\* solid_apply_params, effects_ws/solid.c lines 8-29: the colour of the
\* strip after the call
solid_apply_params(colour, params) ==
    IF Len(params) = 0 THEN colour
    ELSE IF params[1].str
       THEN <<(params[1].hex \div 65536) % 256, (params[1].hex \div 256) % 256,
              params[1].hex % 256>>
    ELSE IF Len(params) >= 3
       THEN [i \in 1 .. 3 |-> to_uint8(params[i].valueint)]
    ELSE colour

flash_params ==
    /\ fx_out' = FxCall("flash_apply_params", flash_apply_params(NoColour \o NoColour, fx_in))
    /\ UNCHANGED <<fx_in, notFx>>

solid_params ==
    /\ fx_out' = FxCall("solid_apply_params", solid_apply_params(NoColour, fx_in))
    /\ UNCHANGED <<fx_in, notFx>>

NextParams ==
    \/ flash_params
    \/ solid_params

(***************************************************************************)
(* ul_core.c: a task inside ul_core_wait_for_ip while events arrive.  Time *)
(* is counted in ticks.  xEventGroupWaitBits returns the bits as they are  *)
(* when one of the awaited bits is set, or when its block time has run     *)
(* out; the statements between two calls of it take no tick.               *)
(***************************************************************************)
WaitTimeout == 3        \* the timeout argument, in ticks
MaxWakes == 2           \* wake-ups by the fail bit counted in wait_wakes
WaitEvents == 3         \* disconnections, and timer callbacks, around one wait

WaitHorizon == WaitTimeout + 2

Awaited == {"CONNECTED", "FAIL"}

InitWait ==
    /\ tick_count = 0
    /\ wait_pc = "idle"
    /\ wait_start = 0
    /\ wait_remaining = 0
    /\ wait_until = 0
    /\ wait_bits = {}
    /\ wait_ret = FALSE
    /\ wait_wakes = 0

\* a blocked task is made ready as soon as an awaited bit is set
WakePending == wait_pc = "blocked" /\ event_bits \cap Awaited # {}

TimeoutPending == wait_pc = "blocked" /\ tick_count >= wait_until

\* the wait that ignores the time already spent
remaining_reset(timeout, elapsed) == timeout

\* line 185: remaining = timeout - (now - start)
remaining_after(timeout, elapsed) == timeout - elapsed

\* lines 168-174: the call, up to the first xEventGroupWaitBits
wait_for_ip_call ==
    /\ wait_pc = "idle"
    /\ IF ~s_wifi_event_group
          THEN /\ wait_pc' = "done"
               /\ wait_ret' = FALSE
               /\ wait_bits' = {}
               /\ UNCHANGED <<wait_remaining, wait_until>>
          ELSE /\ wait_pc' = "blocked"
               /\ wait_remaining' = WaitTimeout
               /\ wait_until' = tick_count + WaitTimeout
               /\ UNCHANGED <<wait_ret, wait_bits>>
    /\ wait_start' = tick_count
    /\ wait_wakes' = 0
    /\ UNCHANGED <<tick_count, firstVars, notMore, besideWait>>

\* xEventGroupWaitBits returns: an awaited bit is set, or the block time is over
wait_for_ip_wake ==
    /\ WakePending \/ TimeoutPending
    /\ wait_bits' = event_bits
    /\ wait_pc' = "woken"
    /\ UNCHANGED <<tick_count, wait_start, wait_remaining, wait_until, wait_ret, wait_wakes>>
    /\ UNCHANGED <<firstVars, notMore, besideWait>>

\* lines 178-187: the statements after xEventGroupWaitBits
wait_for_ip_resume ==
    /\ wait_pc = "woken"
    /\ LET elapsed == tick_count - wait_start
       IN  IF "CONNECTED" \in wait_bits
              THEN /\ wait_pc' = "done"
                   /\ wait_ret' = TRUE
                   /\ UNCHANGED <<event_bits, wait_remaining, wait_until, wait_wakes>>
           ELSE IF "FAIL" \in wait_bits
              THEN /\ event_bits' = event_bits \ {"FAIL"}
                   /\ wait_wakes' = Min(wait_wakes + 1, MaxWakes)
                   /\ IF elapsed >= WaitTimeout
                         THEN /\ wait_pc' = "done"
                              /\ wait_ret' = FALSE
                              /\ UNCHANGED <<wait_remaining, wait_until>>
                         ELSE /\ wait_pc' = "blocked"
                              /\ wait_remaining' = remaining_after(WaitTimeout, elapsed)
                              /\ wait_until' = tick_count
                                                  + remaining_after(WaitTimeout, elapsed)
                              /\ UNCHANGED wait_ret
           ELSE /\ wait_pc' = "done"
                /\ wait_ret' = FALSE
                /\ UNCHANGED <<event_bits, wait_remaining, wait_until, wait_wakes>>
    /\ UNCHANGED <<tick_count, wait_start, wait_bits>>
    /\ UNCHANGED <<s_backoff_ms, s_wifi_event_group, s_reconnect_timer, timer_delay_ms, sta,
                   arm_log, cb_count, sync_fail, conn_cb>>
    /\ UNCHANGED <<healthVars, restartVars, engineVars, notMore, besideWait>>

\* one tick passes; a task that can run does so within the tick
WaitTick ==
    /\ tick_count < WaitHorizon
    /\ wait_pc # "woken"
    /\ ~WakePending
    /\ ~TimeoutPending
    /\ tick_count' = tick_count + 1
    /\ UNCHANGED <<wait_pc, wait_start, wait_remaining, wait_until, wait_bits, wait_ret,
                   wait_wakes>>
    /\ UNCHANGED <<firstVars, notMore, besideWait>>

\* an event is handled; the task it has made ready runs before the next one
WaitEvent ==
    /\ ~WakePending
    /\ Len(arm_log) < WaitEvents
    /\ cb_count < WaitEvents

NextWait ==
    \/ WaitEvent /\ OnStaStart
    \/ WaitEvent /\ OnStaDisconnected
    \/ WaitEvent /\ OnGotIp
    \/ WaitEvent /\ TimerFires
    \/ wait_for_ip_call
    \/ wait_for_ip_wake
    \/ wait_for_ip_resume
    \/ WaitTick

(***************************************************************************)
(* ul_core.c: ul_core_sntp_start creates the retry timer and makes the     *)
(* first attempt to create the resync task; the retry timer's callback     *)
(* makes the later ones.  Times are in microseconds.                       *)
(***************************************************************************)
SNTP_RETRY_INITIAL_DELAY_MS == 5000
SNTP_RETRY_MAX_DELAY_MS == 60000
MaxSntpFailures == 7                        \* failed attempts followed
SntpBootTimes == {1000000, 2000000, 3000000}   \* esp_timer_get_time() at the first attempt
SntpLateness == {0, 1000000}                \* how late the retry timer's callback runs

InitSntp ==
    /\ sntp_pc = "boot"
    /\ s_sntp_task = FALSE
    /\ s_sntp_retry_timer = "none"
    /\ sntp_timer_delay_ms = 0
    /\ s_sntp_retry_delay_ms = SNTP_RETRY_INITIAL_DELAY_MS
    /\ s_sntp_retry_attempts = 0
    /\ s_sntp_first_failure_us = 0
    /\ s_sntp_last_failure_us = 0
    /\ sntp_now_us = 0
    /\ sntp_obs = [rc |-> "none", attempts |-> 0, first |-> 0, timer |-> "none"]

\* the doubling without the ceiling
sntp_delay_doubled(delay_ms) == delay_ms * 2

\* lines 353-358: the delay of the next retry
sntp_next_delay(delay_ms) ==
    IF delay_ms < SNTP_RETRY_MAX_DELAY_MS
       THEN IF delay_ms * 2 > SNTP_RETRY_MAX_DELAY_MS THEN SNTP_RETRY_MAX_DELAY_MS
                                                      ELSE delay_ms * 2
       ELSE delay_ms

\* lines 372-385: schedule_sntp_retry; the timer is stopped before it is started, so that
\* esp_timer_start_once has no reason to fail
schedule_sntp_retry(timer, delay_ms) ==
    IF timer = "none"
       THEN /\ s_sntp_retry_timer' = timer
            /\ UNCHANGED sntp_timer_delay_ms
       ELSE /\ s_sntp_retry_timer' = "armed"
            /\ sntp_timer_delay_ms' = delay_ms

\* lines 317-365: ul_core_start_sntp_task, with the retry timer as it is at the call and the
\* outcome of ul_task_create
ul_core_start_sntp_task(timer, delay_ms, at_us, created) ==
    /\ sntp_now_us' = at_us
    /\ sntp_obs' = [rc |-> IF s_sntp_task THEN "exists" ELSE IF created THEN "pass" ELSE "fail",
                    attempts |-> s_sntp_retry_attempts,
                    first |-> s_sntp_first_failure_us,
                    timer |-> timer]
    /\ IF s_sntp_task
          THEN /\ s_sntp_retry_timer' = timer
               /\ s_sntp_retry_delay_ms' = delay_ms
               /\ UNCHANGED <<s_sntp_task, sntp_timer_delay_ms, s_sntp_retry_attempts,
                              s_sntp_first_failure_us, s_sntp_last_failure_us>>
       ELSE IF created
          THEN /\ s_sntp_task' = TRUE
               /\ s_sntp_retry_attempts' = 0
               /\ s_sntp_first_failure_us' = 0
               /\ s_sntp_last_failure_us' = 0
               /\ s_sntp_retry_delay_ms' = SNTP_RETRY_INITIAL_DELAY_MS
               /\ s_sntp_retry_timer' = IF timer = "armed" THEN "idle" ELSE timer
               /\ UNCHANGED sntp_timer_delay_ms
       ELSE /\ s_sntp_first_failure_us' = IF s_sntp_retry_attempts = 0
                                             THEN at_us ELSE s_sntp_first_failure_us
            /\ s_sntp_retry_attempts' = s_sntp_retry_attempts + 1
            /\ s_sntp_last_failure_us' = at_us
            /\ s_sntp_retry_delay_ms' = sntp_next_delay(delay_ms)
            /\ schedule_sntp_retry(timer, delay_ms)
            /\ UNCHANGED s_sntp_task

\* lines 268-315: ul_core_sntp_start, from the creation of the retry timer on
ul_core_sntp_start ==
    \E timer_created, created \in BOOLEAN : \E at_us \in SntpBootTimes :
        /\ sntp_pc = "boot"
        /\ sntp_pc' = "started"
        /\ ul_core_start_sntp_task(IF s_sntp_retry_timer = "none" /\ timer_created
                                       THEN "idle" ELSE s_sntp_retry_timer,
                                   SNTP_RETRY_INITIAL_DELAY_MS, at_us, created)
        /\ UNCHANGED <<firstVars, notMore, besideSntp>>

\* lines 367-370: the retry timer fires
sntp_retry_timer_cb ==
    \E created \in BOOLEAN : \E late \in SntpLateness :
        /\ s_sntp_retry_timer = "armed"
        /\ s_sntp_retry_attempts < MaxSntpFailures
        /\ ul_core_start_sntp_task("idle", s_sntp_retry_delay_ms,
                                   sntp_now_us + sntp_timer_delay_ms * 1000 + late, created)
        /\ UNCHANGED sntp_pc
        /\ UNCHANGED <<firstVars, notMore, besideSntp>>

NextSntp ==
    \/ ul_core_sntp_start
    \/ sntp_retry_timer_cb

(***************************************************************************)
(* ul_ws_engine.c: the render task and the refresh task of a started ws    *)
(* engine, statement by statement.  ul_ws_engine_start has created the     *)
(* semaphore and the two tasks and has given the semaphore once.           *)
(***************************************************************************)
MaxTicks == 3           \* iterations of ws_task

InitTick ==
    /\ ws_pc = "render0"
    /\ ws_staged = {}
    /\ ws_signals = 0
    /\ tick_gives = 0
    /\ refresh_passes = 0
    /\ unserved = FALSE

\* ws_task that signals before it has rendered the second strip
ws_signal_early(pc) ==
    CASE pc = "render0" -> "give"
      [] pc = "render1" -> "delay"
      [] pc = "give" -> "render1"
      [] OTHER -> "render0"

\* lines 261-271: the order of the statements of ws_task's loop
ws_next(pc) ==
    CASE pc = "render0" -> "render1"
      [] pc = "render1" -> "give"
      [] pc = "give" -> "delay"
      [] OTHER -> "render0"

StripOf(pc) == IF pc = "render0" THEN 0 ELSE 1

\* render_one fills the frame of a strip that has pixels and a handle
WsStaged(k) == k \in cfg /\ ws_strips[k].pixels # 0 /\ ws_strips[k].handle

\* lines 262-267: render_one(&s_strips[k], k), compiled in when the strip is enabled
ws_task_render ==
    /\ family = "ws"
    /\ s_ws_task
    /\ ws_pc \in {"render0", "render1"}
    /\ LET k == StripOf(ws_pc)
       IN  /\ ws_strips' = [ws_strips EXCEPT ![k] =
                                IF WsRendered(k) THEN [@ EXCEPT !.frame_pos = @ + 1] ELSE @]
           /\ first_frame' = [first_frame EXCEPT ![k] =
                                 IF WsRendered(k) /\ @ = -1 THEN WsFrameIdx(ws_strips[k]) ELSE @]
           /\ ws_staged' = IF WsStaged(k) THEN ws_staged \cup {k} ELSE ws_staged
    /\ ws_pc' = ws_next(ws_pc)
    /\ UNCHANGED <<ws_signals, tick_gives, refresh_passes, unserved>>
    /\ UNCHANGED <<family, cfg, phase, starts, s_refresh_sem, sem_count, s_refresh_task,
                   s_ws_task, refresh_pc, rgb_strips, s_strip_count, s_rgb_task, s_ch, s_count,
                   s_white_task, live, init_result, fail_dels, busy_gives, passes_since_give,
                   last_call, engine_obs>>
    /\ UNCHANGED <<coreVars, healthVars, restartVars, notMore, besideTick>>

\* line 268: if (s_refresh_sem) xSemaphoreGive(s_refresh_sem)
ws_task_give ==
    /\ family = "ws"
    /\ s_ws_task
    /\ ws_pc = "give"
    /\ ws_pc' = ws_next(ws_pc)
    /\ sem_count' = IF s_refresh_sem THEN SemGive(sem_count) ELSE sem_count
    /\ busy_gives' = IF s_refresh_sem /\ refresh_pc = "busy"
                        THEN Min(busy_gives + 1, MaxGives) ELSE busy_gives
    /\ passes_since_give' = IF s_refresh_sem THEN 0 ELSE passes_since_give
    /\ ws_signals' = ws_signals + 1
    /\ tick_gives' = IF s_refresh_sem THEN tick_gives + 1 ELSE tick_gives
    /\ unserved' = (s_refresh_sem \/ unserved)
    /\ UNCHANGED <<ws_staged, refresh_passes>>
    /\ UNCHANGED <<family, cfg, phase, starts, ws_strips, s_refresh_sem, s_refresh_task,
                   s_ws_task, refresh_pc, rgb_strips, s_strip_count, s_rgb_task, s_ch, s_count,
                   s_white_task, live, init_result, fail_dels, first_frame, last_call,
                   engine_obs>>
    /\ UNCHANGED <<coreVars, healthVars, restartVars, notMore, besideTick>>

\* line 269: vTaskDelayUntil returns and the next iteration begins
ws_task_delay ==
    /\ family = "ws"
    /\ s_ws_task
    /\ ws_pc = "delay"
    /\ ws_signals < MaxTicks
    /\ ws_pc' = ws_next(ws_pc)
    /\ ws_staged' = {}
    /\ tick_gives' = 0
    /\ UNCHANGED <<ws_signals, refresh_passes, unserved>>
    /\ UNCHANGED <<engineVars, coreVars, healthVars, restartVars, notMore, besideTick>>

\* lines 279-281: xSemaphoreTake returns pdTRUE and a refresh pass begins
refresh_task_take ==
    /\ family = "ws"
    /\ s_refresh_task
    /\ refresh_pc = "idle"
    /\ s_refresh_sem
    /\ sem_count > 0
    /\ sem_count' = sem_count - 1
    /\ refresh_pc' = "busy"
    /\ busy_gives' = 0
    /\ passes_since_give' = passes_since_give + 1
    /\ refresh_passes' = refresh_passes + 1
    /\ unserved' = FALSE
    /\ UNCHANGED <<ws_pc, ws_staged, ws_signals, tick_gives>>
    /\ UNCHANGED <<family, cfg, phase, starts, ws_strips, s_refresh_sem, s_refresh_task,
                   s_ws_task, rgb_strips, s_strip_count, s_rgb_task, s_ch, s_count,
                   s_white_task, live, init_result, fail_dels, first_frame, last_call,
                   engine_obs>>
    /\ UNCHANGED <<coreVars, healthVars, restartVars, notMore, besideTick>>

\* lines 282-287: the led_strip_refresh calls are done, back to xSemaphoreTake
refresh_task_done ==
    /\ family = "ws"
    /\ s_refresh_task
    /\ refresh_pc = "busy"
    /\ refresh_pc' = "idle"
    /\ UNCHANGED <<family, cfg, phase, starts, ws_strips, s_refresh_sem, sem_count,
                   s_refresh_task, s_ws_task, rgb_strips, s_strip_count, s_rgb_task, s_ch,
                   s_count, s_white_task, live, init_result, fail_dels, first_frame,
                   busy_gives, passes_since_give, last_call, engine_obs>>
    /\ UNCHANGED <<coreVars, healthVars, restartVars, laterVars>>

\* the engine is started once and left running
NextTick ==
    \/ \E connected \in BOOLEAN, o0 \in InitOutcomes, o1 \in InitOutcomes,
          sem_ok \in BOOLEAN, refresh_ok \in BOOLEAN, ws_ok \in BOOLEAN :
          starts = 0 /\ ul_ws_engine_start(connected, o0, o1, sem_ok, refresh_ok, ws_ok)
    \/ ws_task_render
    \/ ws_task_give
    \/ ws_task_delay
    \/ refresh_task_take
    \/ refresh_task_done

(***************************************************************************)
(* app_main.c: the service queue, its three producers and                  *)
(* service_manager_task, which handles one message per step.               *)
(***************************************************************************)
ServiceQueueLen == 2    \* xQueueCreate(16, ...): any capacity
MaxServiceMsgs == 5     \* messages offered to the queue in a behaviour

ServiceMsg(type, connected) == [type |-> type, connected |-> connected]

StartSequence == <<"ul_mqtt_start", "ul_ws_engine_start", "ul_rgb_engine_start",
                   "ul_white_engine_start">>
StopSequence == <<"ul_mqtt_stop", "ul_ws_engine_stop", "ul_rgb_engine_stop",
                  "ul_white_engine_stop">>

InitSvc ==
    /\ s_service_queue = <<>>
    /\ svc_running = FALSE
    /\ s_wifi_connected = FALSE
    /\ svc_sent = 0
    /\ svc_calls = <<>>

\* lines 118-131: enqueue_service_message; a message that finds the queue full for 100 ms
\* is dropped
enqueue_service_message(queue, type, connected) ==
    IF Len(queue) < ServiceQueueLen THEN Append(queue, ServiceMsg(type, connected)) ELSE queue

\* lines 151-158: connectivity_cb, called by ul_core on a disconnect and on got-IP
connectivity_cb(connected) ==
    /\ svc_sent < MaxServiceMsgs
    /\ HealthNotified(connected)
    /\ s_service_queue' = enqueue_service_message(s_service_queue, "CONNECTIVITY", connected)
    /\ svc_sent' = svc_sent + 1
    /\ UNCHANGED <<svc_running, s_wifi_connected, svc_calls>>
    /\ UNCHANGED <<coreVars, restartVars, engineVars, notMore, besideSvc>>

\* lines 133-149: request_wifi_recovery and request_mqtt_recovery, called by health_task
request_recovery(type) ==
    /\ svc_sent < MaxServiceMsgs
    /\ s_service_queue' = enqueue_service_message(s_service_queue, type, FALSE)
    /\ svc_sent' = svc_sent + 1
    /\ UNCHANGED <<svc_running, s_wifi_connected, svc_calls>>
    /\ UNCHANGED <<firstVars, notMore, besideSvc>>

\* a start sequence whenever the network is reported up
start_on_connect(connected, running) == connected

\* line 66: the start sequence runs when the message reports the network up and the services
\* are not running
start_due(connected, running) == connected /\ ~running

\* line 83: the stop sequence runs when the network is reported down and they are running
stop_due(connected, running) == ~connected /\ running

\* lines 54-116: service_manager_task receives one message and handles it.  For a Wi-Fi
\* restart, ul_core_wifi_stop calls connectivity_cb(false) from this task, which sends a
\* message to the queue the task has just taken one from.
service_manager_task ==
    /\ s_service_queue # <<>>
    /\ LET msg == Head(s_service_queue)
           rest == Tail(s_service_queue)
       IN  CASE msg.type = "CONNECTIVITY" ->
                  /\ s_wifi_connected' = msg.connected
                  /\ svc_running' = IF start_due(msg.connected, svc_running) THEN TRUE
                                    ELSE IF stop_due(msg.connected, svc_running) THEN FALSE
                                    ELSE svc_running
                  /\ svc_calls' = IF start_due(msg.connected, svc_running)
                                     THEN svc_calls \o StartSequence
                                  ELSE IF stop_due(msg.connected, svc_running)
                                     THEN svc_calls \o StopSequence
                                  ELSE svc_calls
                  /\ s_service_queue' = rest
                  /\ UNCHANGED healthVars
             [] msg.type = "RESTART_MQTT" ->
                  /\ svc_calls' = IF svc_running THEN Append(svc_calls, "ul_mqtt_restart")
                                  ELSE svc_calls
                  /\ s_service_queue' = rest
                  /\ UNCHANGED <<svc_running, s_wifi_connected, healthVars>>
             [] OTHER ->
                  /\ svc_calls' = Append(svc_calls, "ul_core_wifi_restart")
                  /\ HealthNotified(FALSE)
                  /\ s_service_queue' = enqueue_service_message(rest, "CONNECTIVITY", FALSE)
                  /\ UNCHANGED <<svc_running, s_wifi_connected>>
    /\ UNCHANGED svc_sent
    /\ UNCHANGED <<coreVars, restartVars, engineVars, notMore, besideSvc>>

NextSvc ==
    \/ \E connected \in BOOLEAN : connectivity_cb(connected)
    \/ \E type \in {"RESTART_WIFI", "RESTART_MQTT"} : request_recovery(type)
    \/ service_manager_task

(***************************************************************************)
(* ul_state.c: ul_state_task in two steps, the copy made under the lock    *)
(* and the write to storage, with record calls in between; the record      *)
(* calls of a behaviour are counted, so that they come to an end.          *)
(***************************************************************************)
MaxRecords == 3         \* ul_state_record_ws calls in a behaviour

NoCopy == [e |-> -1, payload |-> NoPayload]

InitFlush ==
    /\ task_copy = NoCopy
    /\ records_made = 0

notFlush == <<firstVars, core_obs, clientVars, cmdVars, fxVars, besideFlush>>

\* ul_state_record_ws, lines 391-395, counted
state_record(strip, payload, mem_ok) ==
    /\ records_made < MaxRecords
    /\ records_made' = records_made + 1
    /\ IF strip < 0 \/ strip >= UL_STATE_WS_MAX_STRIPS
          THEN /\ state_obs' = StateCall("record", -1, "none", <<>>)
               /\ UNCHANGED <<s_entries, state_age, state_rec>>
          ELSE update_entry(strip, payload, mem_ok)
    /\ UNCHANGED <<s_ready, s_entry_count, s_queue, s_nvs, s_task, nvs_blob, state_live>>
    /\ UNCHANGED <<task_copy, notFlush>>

\* a failed write that leaves the entry as it is
write_failure_dropped(entries, e) == entries

\* lines 102-106: a failed write marks the entry dirty again and re-arms its timer
write_failed(entries, e) == schedule_flush([entries EXCEPT ![e].dirty = TRUE], e)

\* ul_state_task, lines 68-91: a message is received and the payload copied under the lock
state_task_copy(mem_ok) ==
    /\ s_task
    /\ s_queue.handle
    /\ s_queue.msgs # <<>>
    /\ task_copy = NoCopy
    /\ LET e == Head(s_queue.msgs)
           entry == s_entries[e]
           copied == /\ e < s_entry_count
                     /\ entry.dirty
                     /\ entry.payload # NoPayload
                     /\ mem_ok
       IN  /\ s_queue' = [s_queue EXCEPT !.msgs = Tail(@)]
           /\ s_entries' = IF e >= s_entry_count THEN s_entries
                           ELSE IF copied THEN [s_entries EXCEPT ![e].dirty = FALSE]
                           ELSE schedule_flush(s_entries, e)
           /\ task_copy' = IF copied THEN [e |-> e, payload |-> entry.payload] ELSE NoCopy
           /\ state_obs' = StateCall("task", e, IF copied THEN "copied" ELSE "nothing", <<>>)
    /\ UNCHANGED <<s_ready, s_entry_count, s_nvs, s_task, nvs_blob, state_live, state_age,
                   state_rec>>
    /\ UNCHANGED <<records_made, notFlush>>

\* ul_state_task, lines 93-109: nvs_set_blob and nvs_commit, and what follows them
state_task_write(nvs_ok) ==
    /\ task_copy # NoCopy
    /\ LET e == task_copy.e
       IN  /\ nvs_blob' = IF nvs_ok THEN [nvs_blob EXCEPT ![e] = task_copy.payload]
                                    ELSE nvs_blob
           /\ s_entries' = IF nvs_ok THEN s_entries ELSE write_failed(s_entries, e)
           /\ state_age' = IF nvs_ok /\ e = Watched
                              THEN [state_age EXCEPT !.writes = Min(@ + 1, 2)]
                              ELSE state_age
           /\ state_obs' = StateCall("task", e, IF nvs_ok THEN "persisted" ELSE "failed",
                                     <<>>)
    /\ task_copy' = NoCopy
    /\ UNCHANGED <<s_ready, s_entry_count, s_queue, s_nvs, s_task, state_live, state_rec>>
    /\ UNCHANGED <<records_made, notFlush>>

\* time does not pass while the flush task has a copy to write
FlushTick == task_copy = NoCopy /\ StateTick

NextFlush ==
    \/ \E stage \in InitStages : \E fail_at \in FailAt(stage) : ul_state_init(stage, fail_at)
    \/ \E strip \in StateStrips : \E payload \in StatePayloads : \E mem_ok \in BOOLEAN :
          state_record(strip, payload, mem_ok)
    \/ FlushTick
    \/ \E e \in StateEntries : flush_timer_cb(e)
    \/ \E mem_ok \in BOOLEAN : state_task_copy(mem_ok)
    \/ \E nvs_ok \in BOOLEAN : state_task_write(nvs_ok)

(***************************************************************************)
(* ul_mqtt.c: dim_all_lights and restore_all_lights, on the WS2812 strips  *)
(***************************************************************************)
MaxMqttEvents == 3      \* events mqtt_event_handler handles in a behaviour
MaxBriCommands == 1     \* brightness commands in a behaviour

BriLevels == {0, 7}     \* the uint8_t values a brightness command carries

InitLight ==
    /\ s_ws_saved_bri = [k \in WsIdx |-> 0]
    /\ s_ws_saved_valid = [k \in WsIdx |-> FALSE]
    /\ s_lights_dimmed = FALSE
    /\ mqtt_events = 0
    /\ last_event = "none"
    /\ in_outage = FALSE
    /\ dims_seen = 0
    /\ bri_before = [k \in WsIdx |-> -1]
    /\ cmd_between = FALSE
    /\ bri_commands = 0

\* ul_ws_get_status(i, &st) && st.enabled, on the given strips
StatusEnabled(strips, i) == i \in WsIdx /\ strips[i].pixels > 0

\* ul_ws_set_brightness on the given strips
SetBrightness(strips, i, bri) ==
    IF StatusEnabled(strips, i) THEN [strips EXCEPT ![i].brightness = bri] ELSE strips

\* remember_ws_brightness: the two arrays after it
remember_ws_brightness(saved_bri, strips) ==
    [bri |-> [i \in WsIdx |-> IF StatusEnabled(strips, i) THEN strips[i].brightness
                              ELSE saved_bri[i]],
     valid |-> [i \in WsIdx |-> StatusEnabled(strips, i)]]

Lights(dimmed, saved_bri, saved_valid, strips) ==
    [dimmed |-> dimmed, bri |-> saved_bri, valid |-> saved_valid, strips |-> strips]

\* dim_all_lights without its first two lines
dim_every_time(dimmed, saved_bri, saved_valid, strips) ==
    LET m == remember_ws_brightness(saved_bri, strips)
    IN Lights(TRUE, m.bri, m.valid,
              [i \in WsIdx |-> IF m.valid[i] THEN [strips[i] EXCEPT !.brightness = 0]
                               ELSE strips[i]])

dim_all_lights(dimmed, saved_bri, saved_valid, strips) ==
    IF dimmed THEN Lights(dimmed, saved_bri, saved_valid, strips)
    ELSE LET m == remember_ws_brightness(saved_bri, strips)
         IN Lights(TRUE, m.bri, m.valid,
                   [i \in WsIdx |-> IF m.valid[i] THEN SetBrightness(strips, i, 0)[i]
                                    ELSE strips[i]])

restore_all_lights(dimmed, saved_bri, saved_valid, strips) ==
    IF ~dimmed THEN Lights(dimmed, saved_bri, saved_valid, strips)
    ELSE Lights(FALSE, saved_bri, [i \in WsIdx |-> FALSE],
                [i \in WsIdx |-> IF saved_valid[i] THEN SetBrightness(strips, i, saved_bri[i])[i]
                                 ELSE strips[i]])

\* what the handlers below leave alone
LightRest ==
    <<coreVars, healthVars, restartVars, core_obs, stateVars, cmdVars, fxVars, besideLight,
      family, cfg, phase, starts, s_refresh_sem, sem_count, s_refresh_task, s_ws_task,
      refresh_pc, rgb_strips, s_strip_count, s_rgb_task, s_ch, s_count, s_white_task, live,
      init_result, fail_dels, first_frame, busy_gives, passes_since_give, last_call,
      engine_obs>>

LightsAssigned(l) ==
    /\ s_lights_dimmed' = l.dimmed
    /\ s_ws_saved_bri' = l.bri
    /\ s_ws_saved_valid' = l.valid
    /\ ws_strips' = l.strips

\* mqtt_event_handler, case MQTT_EVENT_DISCONNECTED
mqtt_event_disconnected ==
    /\ s_client
    /\ mqtt_events < MaxMqttEvents
    /\ mqtt_ready' = FALSE
    /\ mqtt_obs' = ClientCall("MQTT_EVENT_DISCONNECTED", "none", "none", <<FALSE>>, FALSE)
    /\ LightsAssigned(dim_all_lights(s_lights_dimmed, s_ws_saved_bri, s_ws_saved_valid,
                                     ws_strips))
    /\ mqtt_events' = mqtt_events + 1
    /\ last_event' = "MQTT_EVENT_DISCONNECTED"
    /\ in_outage' = TRUE
    /\ dims_seen' = IF in_outage THEN dims_seen + 1 ELSE 1
    /\ bri_before' = IF in_outage THEN bri_before
                     ELSE [k \in WsIdx |-> IF get_strip(k) THEN ws_strips[k].brightness
                                           ELSE -1]
    /\ cmd_between' = (in_outage /\ cmd_between)
    /\ UNCHANGED bri_commands
    /\ UNCHANGED <<s_client, s_retry_timer, s_retry_pending, mqtt_live, start_failures>>
    /\ UNCHANGED LightRest

\* mqtt_event_handler, case MQTT_EVENT_CONNECTED
mqtt_event_connected ==
    /\ s_client
    /\ mqtt_events < MaxMqttEvents
    /\ mqtt_ready' = TRUE
    /\ mqtt_obs' = ClientCall("MQTT_EVENT_CONNECTED", "none", "none", <<TRUE>>, FALSE)
    /\ LightsAssigned(restore_all_lights(s_lights_dimmed, s_ws_saved_bri, s_ws_saved_valid,
                                         ws_strips))
    /\ mqtt_events' = mqtt_events + 1
    /\ last_event' = "MQTT_EVENT_CONNECTED"
    /\ in_outage' = FALSE
    /\ UNCHANGED <<dims_seen, bri_before, cmd_between, bri_commands>>
    /\ UNCHANGED <<s_client, s_retry_timer, s_retry_pending, mqtt_live, start_failures>>
    /\ UNCHANGED LightRest

\* ul_ws_set_brightness, called for a brightness command (ws/set, the motion fade)
ul_ws_set_brightness(strip, bri) ==
    /\ family = "ws"
    /\ bri_commands < MaxBriCommands
    /\ ws_strips' = SetBrightness(ws_strips, strip, bri)
    /\ cmd_between' = TRUE
    /\ bri_commands' = bri_commands + 1
    /\ UNCHANGED <<s_ws_saved_bri, s_ws_saved_valid, s_lights_dimmed, mqtt_events, last_event,
                   in_outage, dims_seen, bri_before>>
    /\ UNCHANGED clientVars
    /\ UNCHANGED LightRest

\* The components modelled after the first four, before their first call
InitLater ==
    /\ InitGroup
    /\ InitState
    /\ InitClient
    /\ InitCmd
    /\ InitWait
    /\ InitSntp
    /\ InitTick
    /\ InitSvc
    /\ InitFlush
    /\ InitLight

(***************************************************************************)
(* The state after app_main has started the services, and the              *)
(* specifications.                                                         *)
(***************************************************************************)
InitBoot ==
    /\ InitCore
    /\ InitHealth
    /\ InitRestart
    /\ InitLater
    /\ family = "ws"
    /\ cfg = WsIdx
    /\ EnginesBoot

Init ==
    /\ InitBoot
    /\ InitFx

\* The engines, for every engine and channel configuration
InitEngines ==
    /\ InitCore
    /\ InitHealth
    /\ InitRestart
    /\ InitLater
    /\ InitFx
    /\ family \in {"ws", "rgb", "white"}
    /\ cfg \in SUBSET PwmIdx
    /\ family = "ws" => (cfg # {} /\ cfg \subseteq WsIdx)   \* else the engine is compiled as stubs
    /\ family = "white" => cfg # {}                         \* likewise
    /\ EnginesBoot

SpecWifi == Init /\ [][NextWifi]_vars

SpecHealth == Init /\ [][NextHealth]_vars

SpecRestart == Init /\ [][NextRestart]_vars

SpecGroup == Init /\ [][NextGroup]_vars

SpecEngines == InitEngines /\ [][NextEngines]_vars

\* The request interface, with channels 0 and 1 enabled or not
InitApi ==
    /\ InitEngines
    /\ cfg \subseteq ApiChannels

SpecApi == InitApi /\ [][NextApi]_vars

\* Any order of start and stop calls
SpecCalls == InitEngines /\ [][NextCalls]_vars

SpecMqtt == Init /\ [][NextMqtt]_vars

SpecHeap == Init /\ [][NextHeap]_vars

SpecSync == Init /\ [][NextSync]_vars

SpecState == Init /\ [][NextState]_vars

SpecCmd == Init /\ [][NextCmd]_vars

SpecWait == Init /\ [][NextWait]_vars

SpecSntp == Init /\ [][NextSntp]_vars

\* led_refresh_task has the higher priority of the two tasks, which are pinned to the same
\* core: it runs whenever it can
SpecSvc == Init /\ [][NextSvc]_vars

\* Time passes, a timer that has run out calls its callback and the flush task handles the
\* message it has received; its malloc and its write to storage succeed again and again.
SpecFlush ==
    /\ Init
    /\ [][NextFlush]_vars
    /\ WF_vars(FlushTick)
    /\ \A e \in StateEntries : WF_vars(flush_timer_cb(e))
    /\ WF_vars(\E mem_ok \in BOOLEAN : state_task_copy(mem_ok))
    /\ WF_vars(\E nvs_ok \in BOOLEAN : state_task_write(nvs_ok))
    /\ SF_vars(state_task_copy(TRUE))
    /\ SF_vars(state_task_write(TRUE))

InitWs == InitEngines /\ family = "ws"

\* The strips of the WS2812 engine, started and stopped as the service manager does, with
\* the MQTT client's events and the brightness commands.
NextLight ==
    \/ \E connected \in BOOLEAN, o0, o1 \in {"ok", "new_fail"} :
         ul_ws_engine_start(connected, o0, o1, TRUE, TRUE, TRUE)
    \/ ul_ws_engine_stop
    \/ ~s_client /\ ul_mqtt_start(TRUE, "none", TRUE)
    \/ mqtt_event_disconnected
    \/ mqtt_event_connected
    \/ \E strip \in WsIdx, bri \in BriLevels : ul_ws_set_brightness(strip, bri)

SpecLight == InitWs /\ [][NextLight]_vars

SpecTick ==
    /\ InitWs
    /\ [][NextTick]_vars
    /\ WF_vars(refresh_task_take)
    /\ WF_vars(refresh_task_done)

\* One rendered byte c and one brightness b, any two bytes
InitGamma ==
    /\ InitBoot
    /\ fx_in \in [c : Bytes, b : Bytes]
    /\ fx_out = FxCall("none", 0)

SpecGamma == InitGamma /\ [][NextGamma]_vars

\* One duration and one rate
InitFrames ==
    /\ InitBoot
    /\ fx_in \in [ms : FrameMs, hz : FrameRates]
    /\ fx_out = FxCall("none", 0)

SpecFrames == InitFrames /\ [][NextFrames]_vars

\* One parameter list, the colours being black before the call
InitParams ==
    /\ InitBoot
    /\ fx_in \in ParamLists
    /\ fx_out = FxCall("none", 0)

SpecParams == InitParams /\ [][NextParams]_vars

SpecCopy == Init /\ [][NextCopy]_vars

SpecClient == Init /\ [][NextClient]_vars

(***************************************************************************)
(* C1                                                                      *)
(***************************************************************************)
\* The delay the spec's sequence gives the k-th disconnect: 1000, 2000, 4000,
\* 8000, 16000, then the ceiling.
SeqDelay(k) == Min(WIFI_INITIAL_BACKOFF_MS * Pow2(k - 1), WIFI_MAX_BACKOFF_MS)

\* C1 as stated: over consecutive disconnects with no got-IP or station-start
\* in between, the k-th disconnect arms the reconnect timer with 1000, 2000,
\* 4000, 8000, 16000 ms for k = 1..5 and with 30000 ms for every later one.
C1_Original ==
    \A k \in 1..Len(arm_log) : arm_log[k][1] = SeqDelay(k)

\* C1 amended: the delay armed on a disconnect is min(1000 * 2^j, 30000) ms,
\* j being the number of reconnect-timer callbacks run since the last
\* station-start or got-IP event; it is the k-th term of 1000, 2000, 4000,
\* 8000, 16000, 30000, 30000, ... whenever no callback's connect call has
\* failed synchronously, and never an earlier term than the k-th.
C1_BackoffPerCallback ==
    /\ \A k \in 1..Len(arm_log) :
          /\ arm_log[k][1] = SeqDelay(arm_log[k][2] + 1)
          /\ arm_log[k][1] >= SeqDelay(k)
          /\ arm_log[k][1] <= WIFI_MAX_BACKOFF_MS
    /\ ~sync_fail => \A k \in 1..Len(arm_log) : arm_log[k][1] = SeqDelay(k)

\* Seven disconnects in a row, each followed by one successful callback: the
\* sixth and seventh are armed at the ceiling.
C1_Witness ==
    /\ ~sync_fail
    /\ Len(arm_log) = 7
    /\ arm_log[5][1] = 16000
    /\ arm_log[6][1] = 30000
    /\ arm_log[7][1] = 30000

(***************************************************************************)
(* Claims about the health monitor's Wi-Fi policy (SpecHealth).            *)
(***************************************************************************)

\* C2: among the recovery-eligible evaluations of one outage, an evaluation
\* issues a Wi-Fi recovery request exactly when no request was issued less than
\* the retry interval before it (so two eligible ticks less than the retry
\* interval apart give one request, and an eligible tick after the interval
\* gives the next one), and the attempt counter equals the number of requests
\* issued since it was last reset.
C2_OneRequestPerRetryInterval ==
    /\ \A k \in 1..Len(elig_log) :
          elig_log[k].fired <=>
             ~\E j \in 1..(k - 1) :
                 /\ elig_log[j].fired
                 /\ elig_log[k].t - elig_log[j].t < UL_HEALTH_WIFI_RECOVERY_RETRY_US
    /\ s_state.wifi_recovery_attempts = req_since_reset

C2_Witness ==
    /\ Len(elig_log) = 3
    /\ elig_log[1].fired
    /\ ~elig_log[2].fired
    /\ elig_log[2].t - elig_log[1].t < UL_HEALTH_WIFI_RECOVERY_RETRY_US
    /\ elig_log[3].fired
    /\ elig_log[3].t - elig_log[1].t >= UL_HEALTH_WIFI_RECOVERY_RETRY_US
    /\ s_state.wifi_recovery_attempts = 2
    /\ req_since_reset = 2

\* C3 as stated: the Wi-Fi-down policy reboots only with the attempts exhausted
\* and Wi-Fi down for at least the escalation threshold; a tick that evaluates
\* the policy with Wi-Fi down longer than the escalation window and the
\* attempts exhausted reboots; and nothing runs after the reboot.
C3_RebootOnlyWhen ==
    rebooted' = "wifi" =>
        /\ ~snapshot'.wifi_connected
        /\ snapshot'.wifi_recovery_attempts >= UL_HEALTH_WIFI_MAX_RECOVERIES
        /\ down_since' # -1
        /\ now_us' - down_since' >= UL_HEALTH_WIFI_ESCALATE_US

C3_RebootWhenDue ==
    ( /\ hpc = "wifi"
      /\ hpc' # "wifi"
      /\ ~s_state.wifi_connected
      /\ down_since # -1
      /\ now_us - down_since > UL_HEALTH_WIFI_ESCALATE_US
      /\ snapshot.wifi_recovery_attempts >= UL_HEALTH_WIFI_MAX_RECOVERIES
      /\ s_state.wifi_recovery_attempts >= UL_HEALTH_WIFI_MAX_RECOVERIES )
    => rebooted' = "wifi"

C3_RebootOnce == rebooted = "no"

C3_AsStated == [][C3_RebootOnlyWhen /\ C3_RebootWhenDue /\ C3_RebootOnce]_vars

\* C9 as stated: of two evaluations made within the same retry interval at
\* most one is allowed to issue a Wi-Fi recovery request, whatever runs between
\* them.
C9_AsStated ==
    last_req[1] = -1 \/ last_req[2] >= last_req[1] + UL_HEALTH_WIFI_RECOVERY_RETRY_US

\* C10 as stated: a tick that evaluates the Wi-Fi policy with Wi-Fi down, since
\* the outage began, for at least the recovery delay, with fewer than the
\* maximum of attempts made and the previous attempt at least one retry
\* interval old, requests Wi-Fi recovery, however many disconnect
\* notifications have been delivered during the outage.
C10_AsStated ==
    [][ ( /\ hpc = "wifi"
          /\ hpc' # "wifi"
          /\ ~s_state.wifi_connected
          /\ ~snapshot.wifi_connected
          /\ down_since # -1
          /\ now_us >= down_since + UL_HEALTH_WIFI_RECOVERY_DELAY_US
          /\ s_state.wifi_recovery_attempts < UL_HEALTH_WIFI_MAX_RECOVERIES
          /\ (last_req[2] = -1 \/ now_us >= last_req[2] + UL_HEALTH_WIFI_RECOVERY_RETRY_US) )
        => wifi_req' ]_vars

(***************************************************************************)
(* Claims about ul_core_wifi_restart (SpecRestart).                        *)
(***************************************************************************)
InRestartSequence(c) == rpc[c] \in {"stop", "delay", "start", "start_return"}

\* C8 as stated: no two tasks are inside the restart sequence (after the lock
\* is obtained: ul_core_wifi_stop, the delay, ul_core_wifi_start) at the same
\* time.
C8_AsStated ==
    \A a \in Callers : \A b \in Callers :
        a # b => ~(InRestartSequence(a) /\ InRestartSequence(b))

(***************************************************************************)
(* Claims about the effect engines (SpecEngines).                          *)
(***************************************************************************)
WsInitFailed(k) == init_result[k] \in {"new_fail", "clear_fail", "alloc_fail"}

\* What C4 says of the strips after a start in which init_strip failed for
\* strip k
C4_StripsAsClaimed ==
    \A k \in cfg :
        WsInitFailed(k) =>
            /\ ws_strips[k] = WsDisabledStrip
            /\ live.handles[k] = 0
            /\ live.frames[k] = 0
            /\ fail_dels[k] = (IF init_result[k] = "new_fail" THEN 0 ELSE 1)
            /\ \A j \in cfg :
                  (j < k /\ init_result[j] = "ok") =>
                      /\ ws_strips[j].pixels = CONFIG_UL_WS_PIXELS
                      /\ ws_strips[j].handle
                      /\ ws_strips[j].frame
                      /\ ws_strips[j].eff # "none"
                      /\ ws_strips[j].brightness = 255
                      /\ live.handles[j] = 1
            /\ ul_ws_get_strip_count = Cardinality({j \in cfg : init_result[j] = "ok"})

NothingLive ==
    live = [handles |-> [k \in WsIdx |-> 0], frames |-> [k \in WsIdx |-> 0],
            tasks |-> 0, sems |-> 0]

\* C5: whenever the engine is stopped (initially, and after each stop that
\* follows a start), every channel is disabled, no driver handle, frame
\* buffer, task or semaphore is held or left allocated; for the ws, rgb and
\* white engines and every channel configuration.
C5_StoppedReleasesAll ==
    phase = "stopped" =>
        /\ \A k \in WsIdx : ws_strips[k] = WsDisabledStrip
        /\ ~s_refresh_sem
        /\ ~s_refresh_task
        /\ ~s_ws_task
        /\ \A i \in PwmIdx : ~rgb_strips[i].enabled
        /\ s_strip_count = 0
        /\ ~s_rgb_task
        /\ \A i \in PwmIdx : ~s_ch[i].enabled
        /\ s_count = 0
        /\ ~s_white_task
        /\ NothingLive

C5_Witness ==
    /\ phase = "stopped"
    /\ starts >= 2
    /\ family = "ws"
    /\ cfg = WsIdx

\* C6 as stated: after a successful set_effect the channel's frame counter is
\* 0 until its next render, and the frame index passed to the render function
\* by that render is 0; for the ws, rgb and white engines.
C6_AsStated ==
    \A i \in PwmIdx :
        /\ first_frame[i] \in {-2, -1, 0}
        /\ first_frame[i] = -1 =>
              /\ family = "ws" => ws_strips[i].frame_pos = 0
              /\ family = "rgb" => rgb_strips[i].frame_idx = 0
              /\ family = "white" => s_ch[i].frame_idx = 0

\* C7: the refresh semaphore never holds more than one pending refresh, and
\* however many times it is signalled during a refresh pass, at most one pass
\* begins before it is signalled again.
C7_AtMostOnePending ==
    /\ sem_count <= 1
    /\ passes_since_give <= 1

C7_Witness ==
    /\ refresh_pc = "busy"
    /\ busy_gives >= 2
    /\ sem_count = 1

(***************************************************************************)
(* Claims about the MQTT policy of the health monitor (SpecMqtt).          *)
(***************************************************************************)
\* The conditions C11 names, for the policy evaluation about to run
C11_Due ==
    /\ snapshot.wifi_connected
    /\ ~snapshot.mqtt_connected
    /\ MqttOffline(snapshot, now_us) >= UL_HEALTH_MQTT_RECOVERY_DELAY_US
    /\ now_us - s_state.last_mqtt_recovery_us >= UL_HEALTH_MQTT_RECOVERY_RETRY_US
    /\ s_state.mqtt_recovery_attempts < UL_HEALTH_MQTT_MAX_RECOVERIES

\* C11 as stated: a health tick requests an MQTT restart if and only if its
\* snapshot shows Wi-Fi up and MQTT down for at least the recovery delay, a
\* retry interval has passed since the time recorded for the last MQTT
\* recovery attempt, and fewer than the maximum number of attempts have been
\* made.
C11_AsStated ==
    [][(hpc \in {"wifi", "mqtt"} /\ hpc' # hpc) => (mqtt_req' <=> C11_Due)]_vars

\* The conditions C12 names, for the MQTT policy evaluation about to run: the
\* attempts are used up, the outage has lasted the escalation threshold, and
\* the Wi-Fi recovery rate limit (health_mark_wifi_recovery_attempt) permits
\* a request.
C12_EscalationDue ==
    /\ hpc = "mqtt"
    /\ ~snapshot.mqtt_connected
    /\ snapshot.mqtt_recovery_attempts >= UL_HEALTH_MQTT_MAX_RECOVERIES
    /\ s_state.mqtt_recovery_attempts >= UL_HEALTH_MQTT_MAX_RECOVERIES
    /\ now_us - snapshot.mqtt_last_change_us >= UL_HEALTH_MQTT_ESCALATE_US
    /\ now_us - s_state.last_wifi_recovery_us >= UL_HEALTH_WIFI_RECOVERY_RETRY_US
    /\ s_state.wifi_recovery_attempts < UL_HEALTH_WIFI_MAX_RECOVERIES

\* C12: the MQTT policy evaluation of a health tick (reached only with Wi-Fi
\* up in the snapshot) requests a Wi-Fi cycle, and no MQTT restart, when the
\* MQTT attempts have reached the maximum and MQTT has been down for the
\* escalation threshold; and it never reboots the device.
C12_EscalatesToWifi ==
    [][(hpc = "mqtt" /\ hpc' # hpc) =>
          /\ rebooted' = "no"
          /\ C12_EscalationDue => (wifi_req' /\ ~mqtt_req')]_vars

C12_Witness ==
    /\ hpc = "sync"
    /\ wifi_req
    /\ ~mqtt_req
    /\ rebooted = "no"
    /\ snapshot.wifi_connected
    /\ ~snapshot.mqtt_connected
    /\ snapshot.mqtt_recovery_attempts = UL_HEALTH_MQTT_MAX_RECOVERIES
    /\ now_us - snapshot.mqtt_last_change_us >= UL_HEALTH_MQTT_ESCALATE_US

\* C12 as stated: an evaluation made with Wi-Fi up, the MQTT attempts used up
\* and the outage past the escalation threshold requests a Wi-Fi cycle.
C12_AsStated ==
    [][(/\ hpc = "mqtt" /\ hpc' # hpc
        /\ ~snapshot.mqtt_connected
        /\ snapshot.mqtt_recovery_attempts >= UL_HEALTH_MQTT_MAX_RECOVERIES
        /\ s_state.mqtt_recovery_attempts >= UL_HEALTH_MQTT_MAX_RECOVERIES
        /\ now_us - snapshot.mqtt_last_change_us >= UL_HEALTH_MQTT_ESCALATE_US)
       => wifi_req']_vars

(***************************************************************************)
(* Claims about the heap policy of the health monitor (SpecHeap).          *)
(***************************************************************************)
\* The last five heap checks recorded in h were all below the threshold
FiveLowChecks(h) ==
    /\ Len(h) >= 5
    /\ \A i \in (Len(h) - 4)..Len(h) : h[i]

\* C13: the heap check of a health tick reboots the device exactly when it is
\* the fifth consecutive check with the heap below the threshold; a check
\* with the heap at or above the threshold leaves the strike count at 0; and
\* the check issues no Wi-Fi or MQTT recovery request.
C13_HeapReboot ==
    [][(hpc = "sleep" /\ hpc' # "sleep") =>
          /\ (rebooted' = "heap") <=> FiveLowChecks(heap_hist')
          /\ ~heap_hist'[Len(heap_hist')] => s_state'.heap_low_strikes = 0
          /\ ~wifi_req'
          /\ ~mqtt_req']_vars

C13_Witness ==
    /\ rebooted = "heap"
    /\ hpc = "halted"
    /\ s_state.heap_low_strikes = 5
    /\ FiveLowChecks(heap_hist)

(***************************************************************************)
(* Claims about the time-sync policy of the health monitor (SpecSync).     *)
(***************************************************************************)
\* The Wi-Fi recovery rate limit permits a request with timestamp now_us
WifiRateLimitPermits ==
    /\ now_us - s_state.last_wifi_recovery_us >= UL_HEALTH_WIFI_RECOVERY_RETRY_US
    /\ s_state.wifi_recovery_attempts < UL_HEALTH_WIFI_MAX_RECOVERIES

\* C14 as stated: a health tick that reaches the time-sync check (Wi-Fi up in
\* its snapshot) with no time sync for at least the error threshold reboots
\* the device, and one with no time sync for at least the warn threshold
\* requests Wi-Fi recovery if the Wi-Fi rate limit permits; the time without
\* sync is counted from the last sync, or from the monitor's start if there
\* was none.
C14_AsStated ==
    [][(hpc = "sync" /\ hpc' # hpc) =>
          /\ now_us - snapshot.last_time_sync_us >= UL_HEALTH_TIME_SYNC_ERROR_US
                => rebooted' # "no"
          /\ (/\ now_us - snapshot.last_time_sync_us >= UL_HEALTH_TIME_SYNC_WARN_US
              /\ now_us - snapshot.last_time_sync_us < UL_HEALTH_TIME_SYNC_ERROR_US
              /\ WifiRateLimitPermits)
                => wifi_req']_vars

(***************************************************************************)
(* C15: set_effect(channel, name) returns failure and leaves the effect    *)
(* and the frame position of every channel unchanged when the channel is   *)
(* disabled or out of range or the name is not in the engine's registry;   *)
(* otherwise it returns success, assigns the effect to the channel, resets *)
(* the channel's frame position to 0 and calls the effect's init.          *)
(***************************************************************************)
ChannelEnabled(c) ==
    CASE family = "ws" -> c \in WsIdx /\ ws_strips[c].handle
      [] family = "rgb" -> c \in PwmIdx /\ rgb_strips[c].enabled
      [] OTHER -> c \in PwmIdx /\ s_ch[c].enabled

Registry ==
    CASE family = "ws" -> WsEffects
      [] family = "rgb" -> RgbEffects
      [] OTHER -> WhiteEffects

ChannelEffect(c) ==
    CASE family = "ws" -> ws_strips[c].eff
      [] family = "rgb" -> rgb_strips[c].eff
      [] OTHER -> s_ch[c].eff

ChannelFrame(c) ==
    CASE family = "ws" -> ws_strips[c].frame_pos
      [] family = "rgb" -> rgb_strips[c].frame_idx
      [] OTHER -> s_ch[c].frame_idx

C15_SetEffect ==
    [][\A c \in PwmArgs, n \in RequestedNames :
         (last_call' # last_call /\ last_call' = SetEffectResult(c, n, last_call'.ret))
            => IF ChannelEnabled(c) /\ n \in Registry
                  THEN /\ last_call'.ret
                       /\ last_call'.init = n
                       /\ ChannelEffect(c)' = n
                       /\ ChannelFrame(c)' = 0
                       /\ \A d \in PwmIdx \ {c} :
                             /\ ws_strips' = ws_strips \/ d \notin WsIdx \/ ws_strips'[d] = ws_strips[d]
                             /\ rgb_strips'[d] = rgb_strips[d]
                             /\ s_ch'[d] = s_ch[d]
                  ELSE /\ ~last_call'.ret
                       /\ last_call'.init = "none"
                       /\ UNCHANGED <<ws_strips, rgb_strips, s_ch>>]_vars

\* a running channel that had rendered frames was given another effect
C15_Witness ==
    /\ last_call.fn = "set_effect"
    /\ last_call.ret
    /\ last_call.name # "solid"
    /\ ChannelEffect(last_call.ch) = last_call.name
    /\ ChannelFrame(last_call.ch) = 0
    /\ first_frame[last_call.ch] = -1

(***************************************************************************)
(* C16: get_status(channel) changes nothing in the engine, and for a       *)
(* disabled or out-of-range channel it returns failure with every byte of  *)
(* the output struct zero.                                                 *)
(***************************************************************************)
C16_GetStatus ==
    [][\A c \in PwmArgs :
         (last_call' # last_call /\ last_call'.fn = "get_status" /\ last_call'.ch = c)
            => /\ UNCHANGED engineState
               /\ ~ChannelEnabled(c) => (~last_call'.ret /\ last_call'.out = "zero")
               /\ ChannelEnabled(c) => (last_call'.ret /\ last_call'.out = ChannelEffect(c))]_vars

\* the status of a disabled channel of a started engine was asked for
C16_Witness ==
    /\ last_call.fn = "get_status"
    /\ last_call.ch \in PwmIdx
    /\ ~ChannelEnabled(last_call.ch)
    /\ \E d \in PwmIdx : ChannelEnabled(d)
    /\ ~last_call.ret
    /\ last_call.out = "zero"

(***************************************************************************)
(* C17: after every start, stop and failed initialisation each ws strip is *)
(* either fully enabled (handle, frame buffer and effect present, pixel    *)
(* count positive) or fully disabled (no handle, no buffer, pixel count 0, *)
(* no effect); in every engine a disabled channel is not counted in the    *)
(* strip/channel count and no frame is rendered for it.                    *)
(***************************************************************************)
FullyEnabled(st) == st.handle /\ st.frame /\ st.pixels > 0 /\ st.eff # "none"

FullyDisabled(st) == ~st.handle /\ ~st.frame /\ st.pixels = 0 /\ st.eff = "none"

C17_Consistent ==
    /\ \A k \in WsIdx : FullyEnabled(ws_strips[k]) \/ FullyDisabled(ws_strips[k])
    /\ ul_ws_get_strip_count = Cardinality({k \in WsIdx : FullyEnabled(ws_strips[k])})
    /\ s_strip_count = Cardinality({i \in PwmIdx : rgb_strips[i].enabled})
    /\ s_count = Cardinality({i \in PwmIdx : s_ch[i].enabled})

C17_OnlyEnabledRendered ==
    /\ \A k \in WsIdx :
          ws_strips'[k].frame_pos > ws_strips[k].frame_pos => FullyEnabled(ws_strips[k])
    /\ \A i \in PwmIdx :
          /\ rgb_strips'[i].frame_idx > rgb_strips[i].frame_idx => rgb_strips[i].enabled
          /\ s_ch'[i].frame_idx > s_ch[i].frame_idx => s_ch[i].enabled

C18_AsStated ==
    /\ family = "ws" => (live.tasks <= 2 /\ live.sems <= 1)
    /\ family # "ws" => live.tasks <= 1

(***************************************************************************)
(* C19: when ul_task_create fails in ul_white_engine_start, start returns  *)
(* false, the task handle is null, the channel count is 0, every channel   *)
(* is disabled and the output of every configured channel is pulled low,   *)
(* and the call made one failure report and no ok report; a start in which *)
(* the task is created returns true with the configured channels enabled   *)
(* and made one ok report and no failure report; after stop there is no    *)
(* task and no enabled channel.                                            *)
(***************************************************************************)
WhiteAllDisabled == s_count = 0 /\ \A i \in PwmIdx : ~s_ch[i].enabled

C19_WhiteStartUnwinds ==
    family = "white" =>
       /\ (engine_obs.call = "start" /\ engine_obs.create = "fail") =>
             /\ ~engine_obs.ret
             /\ ~s_white_task
             /\ WhiteAllDisabled
             /\ \A i \in cfg : engine_obs.out[i] = "low"
             /\ engine_obs.failure = 1
             /\ engine_obs.ok = 0
       /\ (engine_obs.call = "start" /\ engine_obs.create = "pass") =>
             /\ engine_obs.ret
             /\ s_white_task
             /\ s_count = Cardinality(cfg)
             /\ \A i \in cfg : s_ch[i].enabled /\ engine_obs.out[i] = "pwm"
             /\ engine_obs.ok = 1
             /\ engine_obs.failure = 0
       /\ engine_obs.call = "stop" =>
             /\ ~s_white_task
             /\ WhiteAllDisabled
             /\ \A i \in cfg : engine_obs.out[i] # "pwm"

\* a start in which the task was created, right after one in which it failed
C19_Witness ==
    /\ family = "white"
    /\ engine_obs.before = "fail"
    /\ engine_obs.call = "start"
    /\ engine_obs.create = "pass"
    /\ engine_obs.ret
    /\ s_white_task

(***************************************************************************)
(* C20 as stated: when ul_task_create fails in ul_rgb_engine_start, the    *)
(* task handle is null, the strip count is 0, every strip is disabled and  *)
(* unconfigured, and the call made one failure report and no ok report; a  *)
(* start in which the task is created enables the strips and made one ok   *)
(* report; stop clears the task handle and the strip count.                *)
(***************************************************************************)
C20_AsStated ==
    family = "rgb" =>
       /\ (engine_obs.call = "start" /\ engine_obs.create = "fail") =>
             /\ ~s_rgb_task
             /\ s_strip_count = 0
             /\ \A i \in PwmIdx : ~rgb_strips[i].enabled /\ ~rgb_strips[i].configured
             /\ engine_obs.failure = 1
             /\ engine_obs.ok = 0
       /\ (engine_obs.call = "start" /\ engine_obs.create = "pass") =>
             /\ s_rgb_task
             /\ \A i \in cfg : rgb_strips[i].enabled
             /\ engine_obs.ok = 1
       /\ engine_obs.call = "stop" => (~s_rgb_task /\ s_strip_count = 0)

(***************************************************************************)
(* C21 as stated: when xEventGroupCreate fails in ul_core_wifi_start, the reconnect  *)
(* timer and the restart mutex are deleted and their handles are null, and *)
(* no connect is issued; while there is no event group, ul_core_wait_for_ip *)
(* returns false without waiting, ul_core_is_connected returns false, and  *)
(* the event handler and the timer callback change no event bit and issue  *)
(* no connect.  What follows the failed start is taken to be the time      *)
(* until an event group exists again.                                      *)
(***************************************************************************)
C21_StartFailed(c) == rpc[c] = "start" /\ rpc'[c] = "start_return"

C21_FailureCleansUp ==
    \A c \in Callers :
       C21_StartFailed(c) =>
          /\ s_reconnect_timer' = "null"
          /\ s_wifi_restart_mutex' = 0
          /\ s_wifi_restart_mutex # 0 => mutex_alloc'[s_wifi_restart_mutex] = "deleted"
          /\ ~s_wifi_event_group'
          /\ sta' = sta
          /\ event_bits' = event_bits

C21_NothingWithoutGroup ==
    (~s_wifi_event_group /\ core_obs' # core_obs) =>
       /\ ~core_obs'.ret
       /\ core_obs'.waits = 0
       /\ UNCHANGED <<event_bits, sta, s_reconnect_timer, s_backoff_ms>>

C21_AsStated == [][C21_FailureCleansUp /\ C21_NothingWithoutGroup]_vars

(***************************************************************************)
(* C22                                                                     *)
(***************************************************************************)
FlushRequested(e) == state_obs.fn = "timer_cb" /\ state_obs.strip = e
Persisted(e) == state_obs.fn = "task" /\ state_obs.strip = e /\ state_obs.ret = "persisted"
FlushPending(e) == s_entries[e].timer = "armed" \/ \E i \in DOMAIN s_queue.msgs : s_queue.msgs[i] = e

NoStateLive == [timers |-> 0, queues |-> 0, handles |-> 0, tasks |-> 0]
TimerCreateFailed == state_obs.fn = "init" /\ state_obs.ret = "ESP_ERR_TIMER"

\* C23: when esp_timer_create fails for an entry, ul_state_init returns the
\* error with every timer it had created deleted, the queue deleted, the
\* storage handle closed and no flush task; while persistence is not
\* initialised a record call arms no timer and queues nothing; after an
\* ul_state_init that succeeds (also one that follows a failed one) exactly
\* one set of resources is live and an accepted record call has armed the
\* entry's flush timer.
C23_TimerFailureUnwinds ==
    /\ TimerCreateFailed =>
          /\ ~s_ready /\ ~s_queue.handle /\ ~s_nvs /\ ~s_task
          /\ s_entry_count = 0
          /\ \A e \in StateEntries : s_entries[e].timer = "none"
          /\ state_live = NoStateLive
    /\ ~s_ready =>
          /\ \A e \in StateEntries : s_entries[e].timer # "armed" /\ ~s_entries[e].dirty
          /\ s_queue.msgs = <<>>
          /\ state_live = NoStateLive
    /\ s_ready =>
          /\ state_live = [timers |-> total_entries, queues |-> 1, handles |-> 1, tasks |-> 1]
          /\ \A e \in StateEntries :
                state_rec[e] # NoPayload => s_entries[e].timer = "armed"

\* the timer of the second entry could not be created: the first entry's
\* timer was created and has been deleted
C23_Witness ==
    /\ TimerCreateFailed
    /\ state_obs.strip = 1
    /\ state_live.timers = 0

(***************************************************************************)
(* C24                                                                     *)
(***************************************************************************)
CopyCalled == state_obs.fn = "copy"
Recorded(strip) == IF strip \in StateEntries THEN state_rec[strip] ELSE NoPayload
Fits(strip, buffer_len) == Recorded(strip) # NoPayload /\ Len(Recorded(strip)) + 1 <= buffer_len

\* C24: ul_state_copy_ws returns false and leaves an empty string in the
\* buffer when no payload has been recorded for the strip or the buffer is
\* too small for the payload and its null byte; otherwise it returns true and
\* the buffer begins with the payload most recently recorded for the strip,
\* followed by a null byte.
C24_CopyRoundTrip ==
    CopyCalled =>
       LET strip == state_obs.strip
           buf == state_obs.buf
           rec == Recorded(strip)
       IN  /\ state_obs.ret = Fits(strip, Len(buf))
           /\ state_obs.ret => SubSeq(buf, 1, Len(rec) + 1) = Append(rec, 0)
           /\ (~state_obs.ret /\ Len(buf) > 0) => buf[1] = 0

\* a copy into a buffer exactly as long as the payload and its null byte,
\* after the payload of the strip had been replaced
C24_Witness ==
    /\ CopyCalled
    /\ state_obs.ret
    /\ state_obs.buf = <<2, 1, 0>>
    /\ state_obs.strip = 1

\* a copy refused because the buffer lacks the room for the null byte
C24_WitnessSmall ==
    /\ CopyCalled
    /\ ~state_obs.ret
    /\ state_obs.buf = <<0, 9>>
    /\ Recorded(state_obs.strip) = <<2, 1>>

(***************************************************************************)
(* C25                                                                     *)
(***************************************************************************)
StartCalled == mqtt_obs.fn \in {"start", "retry", "restart"}
StartFailedEarly == StartCalled /\ mqtt_obs.outcome \in {"init", "register"}
NotifiedDown == mqtt_obs.notified # <<>> /\ mqtt_obs.notified[Len(mqtt_obs.notified)] = FALSE

\* C25 as stated: when esp_mqtt_client_init or the registration of the event
\* handler fails in ul_mqtt_start, no client handle is kept and a created
\* client is destroyed, the health monitor is told MQTT is down, and a
\* one-shot retry is pending with its timer armed.
C25_AsStated ==
    StartFailedEarly =>
       /\ ~s_client /\ ClientsLive = 0
       /\ NotifiedDown
       /\ s_retry_pending /\ s_retry_timer = "armed"

\* C25, amended: after such a failure no client handle is kept, a created
\* client is destroyed and the health monitor is told MQTT is down; a retry is
\* pending with its timer armed unless there was no retry timer yet and
\* esp_timer_create failed, in which case nothing is pending or armed.  When
\* the retry timer fires and the start succeeds, the client is kept and no
\* retry is pending or armed; ul_mqtt_stop destroys the client and leaves no
\* handle and no retry.
C25_FailedStartRetries ==
    /\ StartFailedEarly =>
          /\ ~s_client /\ ClientsLive = 0
          /\ NotifiedDown
          /\ mqtt_obs.create # "failed" => (s_retry_pending /\ s_retry_timer = "armed")
          /\ mqtt_obs.create = "failed" => (~s_retry_pending /\ s_retry_timer = "none")
    /\ (mqtt_obs.fn = "retry" /\ mqtt_obs.outcome = "none") =>
          /\ s_client /\ ClientsLive = 1
          /\ ~s_retry_pending /\ s_retry_timer = "idle"
    /\ mqtt_obs.fn = "stop" =>
          /\ ~s_client /\ ClientsLive = 0
          /\ ~s_retry_pending /\ s_retry_timer # "armed"
    /\ ClientsLive = IF s_client THEN 1 ELSE 0
    /\ s_retry_pending <=> s_retry_timer = "armed"

\* the retry timer fired and the start succeeded, after a start in which the
\* registration failed and the client it had created was destroyed
C25_Witness ==
    /\ mqtt_obs.fn = "retry"
    /\ mqtt_obs.outcome = "none"
    /\ mqtt_live = [created |-> 2, destroyed |-> 1]
    /\ s_client

(***************************************************************************)
(* C26                                                                     *)
(***************************************************************************)
StartFailed == StartCalled /\ mqtt_obs.outcome \in {"init", "register", "start"}

\* C26 as stated: ul_mqtt_start counts consecutive start failures, and after
\* a failed start a restart is marked pending exactly when the number of
\* consecutive failures has reached UL_MQTT_MAX_CONSECUTIVE_START_FAILURES.
C26_AsStated ==
    StartFailed =>
       (mqtt_obs.restart <=> start_failures >= UL_MQTT_MAX_CONSECUTIVE_START_FAILURES)

(***************************************************************************)
(* C27                                                                     *)
(***************************************************************************)
\* the state the last command asked for is the state of the strip it named
RequestApplied ==
    /\ get_strip(cmd_obs.strip)
    /\ cmd_obs.effect # "absent" => ws_strips[cmd_obs.strip].eff = cmd_obs.effect
    /\ cmd_obs.bri.given =>
          ws_strips[cmd_obs.strip].brightness = clamp_brightness(cmd_obs.bri.v)

\* C27 as stated: the acknowledgment of a set command reports success exactly
\* when the state the command asked for was applied to the channel it names,
\* and the payload is recorded for persistence exactly when it was applied: a
\* payload acknowledged as an error is never recorded, and none is recorded
\* for a disabled or non-existent channel.
C27_AsStated ==
    cmd_obs.fn = "ws/set" =>
       /\ cmd_obs.ack = "ok" <=> RequestApplied
       /\ cmd_obs.record <=> RequestApplied
       /\ cmd_obs.ack = "error" => ~cmd_obs.record
       /\ ~get_strip(cmd_obs.strip) => ~cmd_obs.record

(***************************************************************************)
(* C28                                                                     *)
(***************************************************************************)
Rendered == fx_out.fn \in {"render_one", "rgb_task"}

\* gamma first, brightness second, the division truncated
GammaThenBrightness ==
    Rendered =>
       LET g == ul_gamma8(fx_in.c)
       IN  /\ RoundedGamma(fx_in.c, g)
           /\ fx_out.v = (g * fx_in.b) \div 255

\* C28 as stated: with gamma enabled the value written for a rendered byte c
\* and brightness b is floor(G(c) * b / 255) with G(c) = round(255 *
\* (c/255)^2.2), and c = 128 with b = 128 yields 30.
C28_AsStated ==
    /\ GammaThenBrightness
    /\ (Rendered /\ fx_in.c = 128 /\ fx_in.b = 128) => fx_out.v = 30

\* C28, amended: with gamma enabled the value written for a rendered byte c
\* and brightness b is floor(G(c) * b / 255) with G(c) = round(255 *
\* (c/255)^2.2), gamma first, brightness second, the division truncated;
\* G(128) = 56, and c = 128 with b = 128 yields 28.
C28_GammaBrightness ==
    /\ GammaThenBrightness
    /\ (Rendered /\ fx_in.c = 128) => ul_gamma8(fx_in.c) = 56
    /\ (Rendered /\ fx_in.c = 128 /\ fx_in.b = 128) => fx_out.v = 28

\* the byte 128 rendered by the RGB engine at brightness 128
C28_Witness ==
    /\ fx_out.fn = "rgb_task"
    /\ fx_in.c = 128
    /\ fx_in.b = 128
    /\ fx_out.v = 28

(***************************************************************************)
(* C29                                                                     *)
(***************************************************************************)
FramesRead ==
    fx_out.fn \in {"ws_read_frames", "rgb_read_frames", "white_swell_apply_params"}

\* C29 as stated: a duration ms becomes max(1, round(ms * rate_hz / 1000))
\* frames, rounded to the nearest integer and not truncated, for every
\* representable ms.
C29_AsStated ==
    FramesRead => fx_out.v = clamp_frames(frames_rounded(fx_in.ms, fx_in.hz))

(***************************************************************************)
(* C30                                                                     *)
(***************************************************************************)
\* the colour components an effect reads from the list: flash six, solid three
ComponentsRead ==
    IF fx_out.fn = "flash_apply_params" THEN 1 .. Min(Len(fx_in), 6)
    ELSE IF fx_out.fn = "solid_apply_params" /\ fx_in # <<>> /\ ~fx_in[1].str
            THEN 1 .. Min(Len(fx_in), 3)
    ELSE {}

\* C30 as stated: apply_params stores min(255, max(0, v)) for a numeric
\* colour component v, never a wrapped value, and an out-of-range or
\* malformed entry does not make it reject the well-formed entries of the
\* list.
C30_AsStated ==
    \A i \in ComponentsRead :
       ~fx_in[i].str => fx_out.v[i] = clamp_u8(fx_in[i].valueint)

(***************************************************************************)
(* C31                                                                     *)
(***************************************************************************)
\* the disconnect branch of wifi_event_handler has returned and no
\* reconnect-timer callback has run since
JustDisconnected ==
    /\ arm_log # <<>>
    /\ arm_log[Len(arm_log)][2] = cb_count

\* the backoff stored when the last disconnect event was handled
BackoffAtDisconnect == arm_log[Len(arm_log)][1]

DisconnectHandled ==
    /\ "CONNECTED" \notin event_bits
    /\ conn_cb = "down"
    /\ "FAIL" \in event_bits
    /\ s_reconnect_timer = "armed"
    /\ timer_delay_ms = BackoffAtDisconnect

\* C31 as stated: the disconnect handler clears the connected bit, notifies
\* the observer of the disconnection, sets the fail flag, arms the reconnect
\* timer with the current backoff and then doubles the stored backoff, which
\* on return is min(2 * previous, 30000 ms).
C31_AsStated ==
    JustDisconnected =>
       /\ DisconnectHandled
       /\ s_backoff_ms = NextBackoff(BackoffAtDisconnect)

\* C31, amended: the disconnect handler clears the connected bit, notifies
\* the observer of the disconnection, sets the fail flag and arms the
\* reconnect timer with the current backoff, and leaves the stored backoff
\* as it was; the stored backoff is min(1000 * 2^j, 30000) ms after j
\* reconnect-timer callbacks, each callback doubling it up to the ceiling.
C31_DisconnectArms ==
    /\ JustDisconnected =>
          /\ DisconnectHandled
          /\ s_backoff_ms = BackoffAtDisconnect
    /\ sta # "starting" => s_backoff_ms = SeqDelay(cb_count + 1)

\* a third disconnect handled after two callbacks: armed with 4000 ms, and
\* 4000 ms still stored
C31_Witness ==
    /\ JustDisconnected
    /\ Len(arm_log) = 3
    /\ timer_delay_ms = 4000
    /\ s_backoff_ms = 4000

(***************************************************************************)
(* C32                                                                     *)
(***************************************************************************)
\* a step of wifi_reconnect_timer_cb whose esp_wifi_connect fails: a callback
\* has run and the timer is armed again
SyncFailStep ==
    /\ s_reconnect_timer = "armed"
    /\ cb_count' = cb_count + 1
    /\ s_reconnect_timer' = "armed"

\* C32 as stated: when the reconnect timer fires and the connect call fails
\* synchronously, the timer is re-armed with the already doubled backoff,
\* min(2 * the delay that just expired, 30000 ms), so that under repeated
\* failures the delays increase strictly up to the ceiling.
C32_AsStated ==
    [][SyncFailStep => timer_delay_ms' = NextBackoff(timer_delay_ms)]_vars

\* ul_core_wait_for_ip returns in this step
WaitReturns == wait_pc # "done" /\ wait_pc' = "done"

\* C33: ul_core_wait_for_ip returns true exactly when xEventGroupWaitBits has shown it the
\* connected bit, it returns no later than its timeout after the call, and it returns false
\* no earlier than that: a wake-up by the fail bit alone does not end the wait, whatever
\* disconnections, timer callbacks and got-IP events come in between.
C33_WaitForIp ==
    [][WaitReturns =>
          /\ wait_ret' <=> "CONNECTED" \in wait_bits'
          /\ tick_count' - wait_start' <= WaitTimeout
          /\ ~wait_ret' => tick_count' - wait_start' >= WaitTimeout]_vars

\* The wait was woken by the fail bit alone and went on to return true.
C33_Witness ==
    /\ wait_pc = "done"
    /\ wait_ret
    /\ wait_wakes >= 1
    /\ wait_remaining < WaitTimeout

\* the last attempt to create the resync task failed, or succeeded
AttemptFailed == sntp_obs.rc = "fail"
AttemptPassed == sntp_obs.rc = "pass"

\* the delay of the retry after the k-th failure in a row: 5, 10, 20, 40, 60, 60, ... s
RetryDelay(k) == Min(SNTP_RETRY_INITIAL_DELAY_MS * 2^(k - 1), SNTP_RETRY_MAX_DELAY_MS)

FailureCounted ==
    /\ s_sntp_retry_attempts = sntp_obs.attempts + 1
    /\ s_sntp_last_failure_us = sntp_now_us
    /\ s_sntp_first_failure_us = IF sntp_obs.attempts = 0 THEN sntp_now_us ELSE sntp_obs.first
    /\ s_sntp_retry_delay_ms = RetryDelay(s_sntp_retry_attempts + 1)

RetryArmed ==
    /\ s_sntp_retry_timer = "armed"
    /\ sntp_timer_delay_ms = RetryDelay(s_sntp_retry_attempts)

CreationCleared ==
    /\ s_sntp_retry_attempts = 0
    /\ s_sntp_first_failure_us = 0
    /\ s_sntp_last_failure_us = 0
    /\ s_sntp_retry_delay_ms = SNTP_RETRY_INITIAL_DELAY_MS
    /\ s_sntp_retry_timer # "armed"

\* C34 as stated: every failed attempt to create the resync task arms a retry, with the delay
\* 5, 10, 20, 40, 60, 60, ... s, and counts the failure; no retry is armed otherwise, and a
\* successful creation resets counter, timestamps and delay and leaves no retry armed.
C34_AsStated ==
    /\ AttemptFailed => FailureCounted /\ RetryArmed
    /\ s_sntp_retry_timer = "armed" => AttemptFailed
    /\ AttemptPassed => CreationCleared

\* C34: as above, the retry being armed when the retry timer exists; when its creation in
\* ul_core_sntp_start has failed, a failed attempt is counted and no retry is armed.
C34_RetryWithTimer ==
    /\ AttemptFailed => /\ FailureCounted
                        /\ sntp_obs.timer # "none" => RetryArmed
                        /\ sntp_obs.timer = "none" => s_sntp_retry_timer = "none"
    /\ s_sntp_retry_timer = "armed" => AttemptFailed
    /\ AttemptPassed => CreationCleared

\* The sixth failure in a row has armed the retry with the ceiling for the second time.
C34_Witness ==
    /\ AttemptFailed
    /\ s_sntp_retry_attempts = 6
    /\ RetryArmed
    /\ sntp_timer_delay_ms = SNTP_RETRY_MAX_DELAY_MS
    /\ s_sntp_first_failure_us < s_sntp_last_failure_us

\* the strips that have pixels and a handle
EnabledStrips == {k \in WsIdx : WsStaged(k)}

\* ws_task has signalled in this iteration
TickSignalled == s_ws_task /\ ws_pc = "delay"

\* ws_task calls xSemaphoreGive in this step
GiveStep == ws_signals' = ws_signals + 1

RefreshSafe ==
    /\ tick_gives <= 1
    /\ TickSignalled => tick_gives = 1
    /\ refresh_pc = "busy" => refresh_passes >= 1
    /\ refresh_passes <= ws_signals + 1

\* C35: in every iteration ws_task gives the refresh semaphore once, after render_one has
\* filled the frame of every enabled strip; a refresh pass begins only by taking the
\* semaphore, so that the passes never outnumber the iterations plus the one signal given at
\* start; and every signal is eventually followed by the beginning of a refresh pass.
C35_SignalThenRefresh ==
    /\ []RefreshSafe
    /\ [][GiveStep => EnabledStrips \subseteq ws_staged]_vars
    /\ (unserved /\ s_refresh_task) ~> ~unserved

\* Three iterations have signalled, two of them during one refresh pass, and the third pass
\* has begun.
C35_Witness ==
    /\ ws_signals = 3
    /\ refresh_passes = 3
    /\ EnabledStrips = WsIdx
    /\ ~unserved

\* health_task ends its Wi-Fi evaluation in this step
WifiEvaluated == hpc = "wifi" /\ hpc' # "wifi"

\* C36 as stated: no evaluation of the Wi-Fi outage issues a recovery request while the last
\* connectivity notification recorded in s_state is 'connected', also when that notification
\* has arrived between the evaluation's snapshot and its call of
\* health_mark_wifi_recovery_attempt.
C36_AsStated == [][WifiEvaluated /\ s_state.wifi_connected => ~wifi_req']_vars

\* the mutex that xSemaphoreGive at the end of c's restart is called with is live and held
\* by c
GivesTakenMutex(c) ==
    /\ s_wifi_restart_mutex # 0
    /\ mutex_alloc[s_wifi_restart_mutex] = "live"
    /\ mutex_holder[s_wifi_restart_mutex] = c

\* C37 as stated: no call is made on the reconnect timer, the event group or the restart
\* mutex after its deletion or through a null handle, and a restart gives at its end the
\* mutex it took at its start.
C37_AsStated ==
    /\ ~ub
    /\ \A c \in Callers : rpc[c] = "give" => GivesTakenMutex(c)

StartStopCalls == {StartSequence[i] : i \in 1..4} \cup {StopSequence[i] : i \in 1..4}

IsStartStop(call) == call \in StartStopCalls

\* the calls of the start and stop sequences, in the order they were made
SequenceCalls == SelectSeq(svc_calls, IsStartStop)

StartThenStop == StartSequence \o StopSequence

\* the start or stop call made last before the i-th call
LastSequenceCall(i) ==
    LET before == SelectSeq(SubSeq(svc_calls, 1, i - 1), IsStartStop)
    IN  IF before = <<>> THEN "none" ELSE before[Len(before)]

\* C38: service_manager_task runs the start sequence (ul_mqtt_start and the three engine
\* starts) and the stop sequence in strict alternation, the start sequence first, and calls
\* ul_mqtt_restart only after a complete start sequence with no stop call since.
C38_StartStopAlternate ==
    /\ \A i \in 1..Len(SequenceCalls) : SequenceCalls[i] = StartThenStop[((i - 1) % 8) + 1]
    /\ Len(SequenceCalls) % 4 = 0
    /\ svc_running <=> Len(SequenceCalls) % 8 = 4
    /\ \A i \in 1..Len(svc_calls) :
          svc_calls[i] = "ul_mqtt_restart" => LastSequenceCall(i) = "ul_white_engine_start"

\* Start, MQTT restart, stop and start again have been executed, the second start after a
\* second 'connected' message had been ignored while the services were running.
C38_Witness ==
    /\ Len(SequenceCalls) = 12
    /\ "ul_mqtt_restart" \in {svc_calls[i] : i \in 1..Len(svc_calls)}
    /\ svc_running
    /\ svc_sent = MaxServiceMsgs

\* storage holds, for every channel a payload was recorded for, the payload recorded last
AllStored ==
    \A e \in StateEntries :
        state_rec[e] # NoPayload => nvs_blob[e] = Append(state_rec[e], 0)

\* C39: after the last record call, the payload recorded last for each channel is
\* eventually in storage and stays there, whatever writes have failed, whether the queue
\* was full, and whether a payload was recorded between the copy and the write of a flush.
C39_EventuallyStored == <>[]AllStored

\* A payload recorded while the flush task was writing the previous one of the same
\* channel is in storage, both channels having been recorded.
C39_Witness ==
    /\ AllStored
    /\ records_made = MaxRecords
    /\ \A e \in StateEntries : state_rec[e] # NoPayload
    /\ state_age.writes = 2
    /\ task_copy = NoCopy

\* mqtt_event_handler has just handled an MQTT_EVENT_DISCONNECTED
DisconnectedHandled ==
    mqtt_events' = mqtt_events + 1 /\ last_event' = "MQTT_EVENT_DISCONNECTED"

\* mqtt_event_handler has just handled the MQTT_EVENT_CONNECTED that ends an outage
ConnectedHandled ==
    mqtt_events' = mqtt_events + 1 /\ last_event' = "MQTT_EVENT_CONNECTED" /\ in_outage

\* every enabled strip is dark after the step
AllDark == \A k \in WsIdx : get_strip(k) => ws_strips'[k].brightness = 0

\* every strip that was enabled before the outage and is enabled now has, after the
\* step, the brightness it had before the outage
AllRestored ==
    \A k \in WsIdx :
        bri_before[k] # -1 /\ get_strip(k) => ws_strips'[k].brightness = bri_before[k]

\* C40 as the specification states it: every disconnected event leaves every enabled
\* channel at brightness 0, and the connected event that follows, no brightness command
\* having come in between, gives every such channel the brightness it had before the
\* first disconnected event.
C40_AsStated ==
    [][/\ DisconnectedHandled => AllDark
       /\ ConnectedHandled /\ ~cmd_between => AllRestored]_vars

\* C40: a disconnected event that finds the lights not dimmed yet leaves every enabled
\* channel at brightness 0; a disconnected event that finds them dimmed changes neither a
\* channel nor a saved value, so that a strip the engine has initialised again since keeps
\* the brightness of its initialisation; and the connected event that follows, no
\* brightness command having come in between, gives every channel that was enabled before
\* the first disconnected event and is enabled now the brightness it had before that event.
C40_DimOnceRestoreOnce ==
    [][/\ DisconnectedHandled /\ ~s_lights_dimmed => AllDark
       /\ DisconnectedHandled /\ s_lights_dimmed =>
              UNCHANGED <<ws_strips, s_ws_saved_bri, s_ws_saved_valid, s_lights_dimmed>>
       /\ ConnectedHandled /\ ~cmd_between => AllRestored]_vars

\* A strip set to brightness 7 has been dimmed, the engine has been stopped and started
\* again, a second disconnected event has come, and the connected event has given the
\* strip its brightness of 7 back.
C40_Witness ==
    /\ last_event = "MQTT_EVENT_CONNECTED"
    /\ dims_seen >= 2
    /\ ~cmd_between
    /\ starts = MaxStarts
    /\ ~s_lights_dimmed
    /\ \E k \in WsIdx : get_strip(k) /\ bri_before[k] = 7 /\ ws_strips[k].brightness = 7

====
